---------------------------- MODULE Spec2Model ----------------------------
(***************************************************************************)
(* A model of the Nordhold realtime core: the live bridge (connect,        *)
(* autoconnect, snapshot), the memory reader it owns, the replay store it  *)
(* falls back to, and the raw-memory contract normalisation.               *)
(*                                                                         *)
(* Numbers.  Memory fields decode to int32/uint32/float32/float64 and the  *)
(* bridge coerces them with float() and int(float()).  A number is kept as *)
(* an integer count of 1/Scale units, so that fractional readings exist    *)
(* and int() (truncation toward zero) is not the identity.  Decoded        *)
(* readings are finite numbers; NaN and infinities are not modelled.       *)
(***************************************************************************)
EXTENDS Integers, Sequences, FiniteSets, TLC

(* ------------------------------ bounds -------------------------------- *)

\* Resolution of the fixed-point numbers: a value v stands for v / Scale.
Scale == 2
\* Largest magnitude (in whole units) of a sampled reading.
MaxReading == 2
\* Cap on the number of failed snapshot reads recorded between two connects.
MaxSnapshotFailures == 2
\* Largest wave number stored in a replay session.
MaxReplayWave == 2

(* ------------------------------ values -------------------------------- *)

\* A raw field value as Python sees it: a number, a bool or a string.
Num(n) == [k |-> "num", n |-> n, s |-> ""]
Bool(b) == [k |-> "bool", n |-> IF b THEN 1 ELSE 0, s |-> ""]
Str(s) == [k |-> "str", n |-> 0, s |-> s]

\* int(x) of a float: truncation toward zero, in whole units.
PyInt(n) == IF n >= 0 THEN n \div Scale ELSE -((-n) \div Scale)

Max2(a, b) == IF a >= b THEN a ELSE b

\* float(str(raw).strip()) on the sampled strings: the parsed number, or a
\* ValueError (ok = FALSE).
StrToFloat(s) ==
    CASE s = "1" -> [ok |-> TRUE, n |-> Scale]
      [] s = "0" -> [ok |-> TRUE, n |-> 0]
      [] s = "3" -> [ok |-> TRUE, n |-> 3 * Scale]
      [] OTHER -> [ok |-> FALSE, n |-> 0]

\* str(raw).strip().lower() matched against the two literal sets of
\* _resolve_bool_field: "t" true, "f" false, "u" neither.
StrToBool(s) ==
    CASE s \in {"1", "true", "yes", "y", "on", "t"} -> "t"
      [] s \in {"0", "false", "no", "n", "off", "f", ""} -> "f"
      [] OTHER -> "u"

(* --------------------- the raw-memory contract ------------------------ *)

OPTIONAL_MEMORY_FIELD_ALIASES ==
    [combat_block_value |->
        <<"combat_block_value", "combat_block", "block_value", "block">>,
     combat_block_percent |->
        <<"combat_block_percent", "combat_block_pct", "block_percent", "block_pct">>,
     combat_block_flat |->
        <<"combat_block_flat", "combat_block_amount", "block_flat", "block_amount">>]

OptionalFieldOrder ==
    <<"combat_block_value", "combat_block_percent", "combat_block_flat">>

LIVE_RAW_MEMORY_NUMERIC_FIELDS ==
    <<"current_wave", "gold", "essence", "wood", "stone", "wheat",
      "workers_total", "workers_free", "tower_inflation_index",
      "base_hp_current", "base_hp_max", "leaks_total", "enemies_alive",
      "boss_hp_current", "boss_hp_max", "wave_elapsed_s", "wave_remaining_s",
      "barrier_hp_total", "enemy_regen_total_per_s">>

LIVE_RAW_MEMORY_BOOL_FIELDS == <<"boss_alive", "is_combat_phase">>

LIVE_RAW_MEMORY_FIELD_ALIASES ==
    [current_wave |-> <<"current_wave", "wave">>,
     gold |-> <<"gold">>,
     essence |-> <<"essence">>,
     wood |-> <<"wood">>,
     stone |-> <<"stone">>,
     wheat |-> <<"wheat">>,
     workers_total |-> <<"workers_total", "workers", "population_total">>,
     workers_free |->
        <<"workers_free", "free_workers", "idle_workers", "population_free">>,
     tower_inflation_index |->
        <<"tower_inflation_index", "inflation_index", "build_cost_index">>,
     base_hp_current |->
        <<"base_hp_current", "base_hp", "player_hp", "current_hp", "base_health">>,
     base_hp_max |->
        <<"base_hp_max", "max_player_hp", "max_hp", "player_hp_max", "base_health_max">>,
     leaks_total |-> <<"leaks_total", "leaks", "wave_leaks", "leak_count">>,
     enemies_alive |-> <<"enemies_alive", "alive_enemies", "enemy_alive">>,
     boss_alive |-> <<"boss_alive", "is_boss_alive", "boss_present">>,
     boss_hp_current |-> <<"boss_hp_current", "boss_hp", "boss_health">>,
     boss_hp_max |->
        <<"boss_hp_max", "max_boss_hp", "boss_health_max", "boss_max_hp">>,
     wave_elapsed_s |-> <<"wave_elapsed_s", "combat_time_s", "wave_time_s">>,
     wave_remaining_s |->
        <<"wave_remaining_s", "wave_time_left_s", "combat_time_remaining_s">>,
     barrier_hp_total |->
        <<"barrier_hp_total", "barrier_hp", "barrier_health", "shield_hp">>,
     enemy_regen_total_per_s |->
        <<"enemy_regen_total_per_s", "regen_per_s", "regen_ps", "hp_regen_per_s">>,
     is_combat_phase |-> <<"is_combat_phase", "combat_phase", "in_combat">>]

\* Defaults that are 0.0 everywhere.
NumericDefaultZero(field) == 0

\* LIVE_RAW_MEMORY_NUMERIC_DEFAULTS: 0.0 everywhere but tower_inflation_index.
NumericDefault(field) == IF field = "tower_inflation_index" THEN Scale ELSE 0

SeqRange(s) == {s[i] : i \in 1..Len(s)}

\* The first alias, in order, that is present and coerces to a number;
\* the default when none does.
RECURSIVE ResolveNumericFrom(_, _, _, _)
ResolveNumericFrom(source, aliases, default, i) ==
    IF i > Len(aliases) THEN default
    ELSE LET name == aliases[i] IN
         IF name \notin DOMAIN source
         THEN ResolveNumericFrom(source, aliases, default, i + 1)
         ELSE LET raw == source[name] IN
              CASE raw.k = "bool" -> raw.n * Scale
                [] raw.k = "num" -> raw.n
                [] OTHER ->
                     IF StrToFloat(raw.s).ok THEN StrToFloat(raw.s).n
                     ELSE ResolveNumericFrom(source, aliases, default, i + 1)

_resolve_numeric_field(source, aliases, default) ==
    ResolveNumericFrom(source, aliases, default, 1)

RECURSIVE ResolveBoolFrom(_, _, _, _)
ResolveBoolFrom(source, aliases, default, i) ==
    IF i > Len(aliases) THEN default
    ELSE LET name == aliases[i] IN
         IF name \notin DOMAIN source
         THEN ResolveBoolFrom(source, aliases, default, i + 1)
         ELSE LET raw == source[name] IN
              CASE raw.k = "bool" -> raw.n = 1
                [] raw.k = "num" -> raw.n # 0
                [] OTHER ->
                     CASE StrToBool(raw.s) = "t" -> TRUE
                       [] StrToBool(raw.s) = "f" -> FALSE
                       [] OTHER -> ResolveBoolFrom(source, aliases, default, i + 1)

_resolve_bool_field(source, aliases, default) ==
    ResolveBoolFrom(source, aliases, default, 1)

\* d with d[key] set to val, the key added when absent.
DictSet(d, key, val) ==
    [x \in DOMAIN d \cup {key} |-> IF x = key THEN val ELSE d[x]]

\* any(alias in source for alias in aliases)
HasAnyAlias(source, aliases) == \E a \in SeqRange(aliases) : a \in DOMAIN source

\* The names of LIVE_RAW_MEMORY_NUMERIC_FIELDS, and of the whole contract.
NumericFields == SeqRange(LIVE_RAW_MEMORY_NUMERIC_FIELDS)

ContractFields == NumericFields \cup SeqRange(LIVE_RAW_MEMORY_BOOL_FIELDS)

\* The leaks_total the inference block leaves: the resolved value, replaced by
\* max(0, base_hp_max - max(0, base_hp_current)) over int()-truncated HP when no
\* leaks alias is in the source and int(base_hp_max) > 0.
InferredLeaks(source, numeric) ==
    LET base_hp_current == PyInt(numeric["base_hp_current"])
        base_hp_max == PyInt(numeric["base_hp_max"])
    IN IF ~HasAnyAlias(source, LIVE_RAW_MEMORY_FIELD_ALIASES["leaks_total"])
          /\ base_hp_max > 0
       THEN Max2(0, base_hp_max - Max2(0, base_hp_current)) * Scale
       ELSE numeric["leaks_total"]

\* An inference that compares enemies_alive without int().
InferredCombatPhaseUntruncated(source, enemies_alive) ==
    IF ~HasAnyAlias(source, LIVE_RAW_MEMORY_FIELD_ALIASES["is_combat_phase"])
    THEN enemies_alive > 0
    ELSE _resolve_bool_field(source, LIVE_RAW_MEMORY_FIELD_ALIASES["is_combat_phase"], FALSE)

\* The is_combat_phase the inference block leaves.
InferredCombatPhase(source, enemies_alive) ==
    IF ~HasAnyAlias(source, LIVE_RAW_MEMORY_FIELD_ALIASES["is_combat_phase"])
    THEN PyInt(enemies_alive) > 0
    ELSE _resolve_bool_field(source, LIVE_RAW_MEMORY_FIELD_ALIASES["is_combat_phase"], FALSE)

_ensure_live_raw_memory_contract_fields(values) ==
    LET source_values == values
        numeric == [f \in NumericFields |->
                      _resolve_numeric_field(source_values,
                          LIVE_RAW_MEMORY_FIELD_ALIASES[f], NumericDefault(f))]
        leaks == InferredLeaks(source_values, numeric)
        boss == _resolve_bool_field(source_values,
                    LIVE_RAW_MEMORY_FIELD_ALIASES["boss_alive"], FALSE)
        phase == InferredCombatPhase(source_values, numeric["enemies_alive"])
    IN [x \in DOMAIN values \cup ContractFields |->
          CASE x = "leaks_total" -> Num(leaks)
            [] x = "boss_alive" -> Bool(boss)
            [] x = "is_combat_phase" -> Bool(phase)
            [] x \in NumericFields -> Num(numeric[x])
            [] OTHER -> values[x]]

\* The loop over OPTIONAL_MEMORY_FIELD_ALIASES: a canonical name that is
\* absent is filled from its aliases (default 0.0), one name after the other.
RECURSIVE FillOptionalFrom(_, _)
FillOptionalFrom(normalized, i) ==
    IF i > Len(OptionalFieldOrder) THEN normalized
    ELSE LET canonical_name == OptionalFieldOrder[i] IN
         IF canonical_name \in DOMAIN normalized
         THEN FillOptionalFrom(normalized, i + 1)
         ELSE FillOptionalFrom(
                  DictSet(normalized, canonical_name,
                      Num(_resolve_numeric_field(normalized,
                              OPTIONAL_MEMORY_FIELD_ALIASES[canonical_name], 0))),
                  i + 1)

_normalize_raw_memory_values(values) ==
    _ensure_live_raw_memory_contract_fields(FillOptionalFrom(values, 1))

EmptyDict == [x \in {} |-> Num(0)]

(* --------------------------- memory reader ---------------------------- *)

\* The text of a MemoryReaderError, as far as the bridge inspects it: whether
\* it contains "ReadProcessMemory failed" and whether it contains "winerr=299".
ErrorMessage(rpm, w299) == [rpm |-> rpm, w299 |-> w299]

NoError == ErrorMessage(FALSE, FALSE)

\* Classifiers that look at one of the two substrings only.
IsTransientByWinerrOnly(message) == message.w299

IsTransientByMessageOnly(message) == message.rpm

_is_transient_memory_error(message) == message.w299 /\ message.rpm

\* backend.open_process/find_process_id outcomes seen by MemoryReader.open:
\* a handle, or "memory_reader_not_supported_platform" / "Process not found" /
\* "OpenProcess failed for pid=.., winerr=<n>" (n may be 299).
OpenOutcomes ==
    {[ok |-> TRUE, err |-> NoError]}
      \cup {[ok |-> FALSE, err |-> ErrorMessage(FALSE, w)] : w \in BOOLEAN}

\* One entry of the reader's call log: the method ("close", "open", "read",
\* or "open_failed"/"read_failed" when it raised) and the message it raised.
Called(method, err) == [m |-> method, err |-> err]

\* The reader with the handles the backend holds open for it.  handle = 0 is
\* "not connected"; calls logs the reader methods called during the current
\* bridge call; peak_open is the largest number of handles open at once so far.
NewReader == [handle |-> 0, backend_open |-> {}, calls |-> <<>>, peak_open |-> 0]

BeginCall(reader) == [reader EXCEPT !.calls = <<>>]

FreshHandle(open) == CHOOSE h \in 1..(Cardinality(open) + 1) : h \notin open

\* A close() that forgets the backend handle.
ReaderCloseLeaking(reader) ==
    [reader EXCEPT !.handle = 0, !.calls = Append(@, Called("close", NoError))]

ReaderClose(reader) ==
    [reader EXCEPT !.backend_open = @ \ {reader.handle},
                   !.handle = 0,
                   !.calls = Append(@, Called("close", NoError))]

ReaderOpen(reader, outcome) ==
    LET closed == ReaderClose(reader)
        h == FreshHandle(closed.backend_open)
    IN IF outcome.ok
       THEN [closed EXCEPT !.handle = h,
                           !.backend_open = @ \cup {h},
                           !.calls = Append(@, Called("open", NoError)),
                           !.peak_open = Max2(@, Cardinality(closed.backend_open) + 1)]
       ELSE [closed EXCEPT !.calls = Append(@, Called("open_failed", outcome.err))]

\* read_fields: "memory_reader_not_connected" without a handle, else what the
\* backend reads.
ReaderRead(reader, outcome) ==
    LET res == IF reader.handle = 0
               THEN [ok |-> FALSE, values |-> EmptyDict, err |-> NoError]
               ELSE outcome
    IN [reader |-> [reader EXCEPT !.calls =
                        Append(@, IF res.ok THEN Called("read", NoError)
                                  ELSE Called("read_failed", res.err))],
        res |-> res]

(* ------------------------- signature profiles ------------------------- *)

REQUIRED_MEMORY_FIELDS == <<"current_wave", "gold", "essence">>

\* A MemoryProfile, as far as the bridge uses it: its id, the address of each
\* field (0 = unresolved), the required field names and required_admin.
NoProfile ==
    [id |-> "", fields |-> [x \in {} |-> 0],
     required_combat_fields |-> <<>>, required_admin |-> FALSE]

BaseProfile(gold_address, admin) ==
    [id |-> "base_profile",
     fields |-> [current_wave |-> 4096, gold |-> gold_address, essence |-> 4104],
     required_combat_fields |-> REQUIRED_MEMORY_FIELDS,
     required_admin |-> admin]

\* A profile that also declares optional combat fields.
CombatProfile ==
    [id |-> "combat_profile",
     fields |-> [current_wave |-> 4096, gold |-> 4100, essence |-> 4104,
                 player_hp |-> 4108, max_player_hp |-> 4112,
                 enemies_alive |-> 4116],
     required_combat_fields |-> REQUIRED_MEMORY_FIELDS,
     required_admin |-> FALSE]

\* The profiles load_memory_profile can return from the catalog's signatures.
CatalogProfiles ==
    {BaseProfile(4100, FALSE), BaseProfile(0, FALSE), BaseProfile(4100, TRUE),
     CombatProfile}

\* MemoryFieldSpec.resolved
resolved(address) == address # 0

\* ensure_resolved raises MemoryProfileError: a required field is missing or
\* one is unresolved.
EnsureResolvedRaises(profile) ==
    \E name \in SeqRange(profile.required_combat_fields) :
        name \notin DOMAIN profile.fields \/ ~resolved(profile.fields[name])

_profile_has_unresolved_required_fields(profile, required_fields) ==
    \E name \in SeqRange(required_fields) :
        name \notin DOMAIN profile.fields \/ ~resolved(profile.fields[name])

\* apply_calibration_candidate: the candidate's addresses laid over the base
\* profile's, under the id <base>@<candidate>.
apply_calibration_candidate(base_profile, candidate) ==
    [base_profile EXCEPT
        !.id = base_profile.id \o "@" \o candidate.id,
        !.fields = [name \in DOMAIN base_profile.fields \cup DOMAIN candidate.fields |->
                      IF name \in DOMAIN candidate.fields
                      THEN candidate.fields[name]
                      ELSE base_profile.fields[name]]]

\* The candidates a calibration payload can select.
CalibrationCandidates ==
    {[id |-> "candidate_full", fields |-> [gold |-> 21840]],
     [id |-> "candidate_partial", fields |-> [gold |-> 0]]}

(* ------------------------------ readings ------------------------------ *)

Readings == {-1, 0, 1, Scale, Scale * MaxReading}

\* What read_fields can decode for a profile: one value per profile field.
\* The required fields vary over Readings for the three-field profiles; the
\* combat profile varies its optional fields.
FieldReadings(profile) ==
    IF "enemies_alive" \in DOMAIN profile.fields
    THEN {[current_wave |-> Num(Scale), gold |-> Num(3), essence |-> Num(0),
           player_hp |-> Num(h), max_player_hp |-> Num(Scale * MaxReading),
           enemies_alive |-> Num(e)] : h \in Readings, e \in {1, Scale}}
    ELSE {[current_wave |-> Num(w), gold |-> Num(3), essence |-> Num(0)] :
             w \in Readings}

\* backend.read_memory outcomes seen through read_fields: the decoded values,
\* or a MemoryReadError with its message.
ReadOutcomes(profile) ==
    {[ok |-> TRUE, values |-> v, err |-> NoError] : v \in FieldReadings(profile)}
      \cup {[ok |-> FALSE, values |-> EmptyDict, err |-> ErrorMessage(r, w)] :
               r \in BOOLEAN, w \in BOOLEAN}

(* ---------------------------- live snapshot --------------------------- *)

LiveSnapshot(wave, gold, essence, build, source_mode) ==
    [wave |-> wave, gold |-> gold, essence |-> essence, build |-> build,
     source_mode |-> source_mode]

\* A build payload: the keys it holds besides raw_memory_fields, the
\* raw_memory_fields dict (has_raw = FALSE: absent or not a dict) and the
\* combat.block triple of a memory snapshot.
Build(keys, has_raw, raw, block) ==
    [keys |-> keys, has_raw |-> has_raw, raw_memory_fields |-> raw,
     combat_block |-> block]

\* No snapshot: the call raised, or it was not snapshot().
NoSnapshot == LiveSnapshot(0, 0, 0, Build({}, FALSE, EmptyDict, EmptyDict), "none")

_combat_block_payload(values) ==
    [value |-> Num(_resolve_numeric_field(values, <<"combat_block_value">>, 0)),
     percent |-> Num(_resolve_numeric_field(values, <<"combat_block_percent">>, 0)),
     flat |-> Num(_resolve_numeric_field(values, <<"combat_block_flat">>, 0))]

_snapshot_with_live_raw_memory_contract(snapshot) ==
    LET normalized_raw ==
            IF snapshot.build.has_raw
            THEN _normalize_raw_memory_values(snapshot.build.raw_memory_fields)
            ELSE _normalize_raw_memory_values(EmptyDict)
    IN [snapshot EXCEPT !.build.has_raw = TRUE,
                        !.build.raw_memory_fields = normalized_raw]

\* wave = int(raw_values["current_wave"]), reported as max(1, wave).
MemoryWave(values) ==
    Max2(1, PyInt(_normalize_raw_memory_values(values)["current_wave"].n))

_snapshot_from_memory_values(values) ==
    LET raw_values == _normalize_raw_memory_values(values)
    IN _snapshot_with_live_raw_memory_contract(
           LiveSnapshot(MemoryWave(values), raw_values["gold"].n, raw_values["essence"].n,
               Build({"towers", "combat"}, TRUE, raw_values,
                     _combat_block_payload(raw_values)),
               "memory"))

\* A synthetic snapshot that forgets the wave the bridge holds.
SyntheticSnapshotAtFirstWave(wave) ==
    _snapshot_with_live_raw_memory_contract(
        LiveSnapshot(1, 0, 0, Build({"towers"}, FALSE, EmptyDict, EmptyDict),
                     "synthetic"))

SyntheticSnapshot(wave) ==
    _snapshot_with_live_raw_memory_contract(
        LiveSnapshot(wave, 0, 0, Build({"towers"}, FALSE, EmptyDict, EmptyDict),
                     "synthetic"))

(* ----------------------------- replay store --------------------------- *)

ReplaySnapshot(wave, gold, essence, build) ==
    [wave |-> wave, gold |-> gold, essence |-> essence, build |-> build]

\* raw_memory_fields payloads a stored build can carry (JSON: numbers,
\* strings and booleans under canonical names or aliases).
ReplayRawSamples ==
    {[wave |-> Num(3 * Scale), leaks |-> Str("abc"), in_combat |-> Str("yes")],
     [base_hp |-> Num(3), max_hp |-> Str("3"), enemies_alive |-> Bool(TRUE)]}

ReplayBuilds ==
    {Build({}, FALSE, EmptyDict, EmptyDict)}
      \cup {Build({"towers"}, TRUE, raw, EmptyDict) : raw \in ReplayRawSamples}

\* Snapshots as load_session rebuilds them: wave = int(item.get("wave", 0)).
StoredSnapshots ==
    {ReplaySnapshot(w, Scale, 0, b) : w \in 0..MaxReplayWave, b \in ReplayBuilds}

\* The last snapshot of each session on disk.
LastSnapshot(session_id) ==
    CHOOSE s \in StoredSnapshots :
        \/ session_id = "r1" /\ s.wave = MaxReplayWave
              /\ "base_hp" \in DOMAIN s.build.raw_memory_fields
        \/ session_id = "r2" /\ s.wave = 0 /\ ~s.build.has_raw
        \/ session_id = "r3" /\ s.wave = 1
              /\ "wave" \in DOMAIN s.build.raw_memory_fields

StoredSessionIds == {"r1", "r2", "r3"}

\* Session ids a caller may name; "r9" is not on disk.
SessionIds == StoredSessionIds \cup {"r9"}

\* load_session raises ReplayError: no file for the session.
LoadSessionRaises(store, session_id) == session_id \notin DOMAIN store

\* latest_snapshot raises ReplayError: no file, or no snapshots in it.
LatestSnapshotRaises(store, session_id) ==
    LoadSessionRaises(store, session_id) \/ Len(store[session_id]) = 0

latest_snapshot(store, session_id) ==
    LET snap == store[session_id][Len(store[session_id])]
    IN LiveSnapshot(snap.wave, snap.gold, snap.essence, snap.build, "replay")

(* -------------------------------- state ------------------------------- *)

VARIABLES
    bridge,          \* the LiveBridge object: its attributes, reader included
    replay_store,    \* runtime/replays: session id -> stored snapshots
    last_call,       \* the last bridge call: its arguments and what it returned
    engine,          \* the timeline engine: the evaluation in progress
    candidate_payload,  \* the calibration candidates payload under selection
    scanner,         \* the memory scan tool: the scan or narrow pass in progress
    threads          \* the HTTP handler threads inside a bridge call: their positions

vars ==
    <<bridge, replay_store, last_call, engine, candidate_payload, scanner, threads>>

\* No timeline evaluation in progress; no calibration payload loaded; no
\* scan started.
NoEngine == [op |-> "idle"]

NoCalibration == [op |-> "idle"]

NoScanner == [op |-> "idle"]

\* No handler thread is inside a bridge call.
NoThreads == [op |-> "idle"]

\* What a finished call leaves for inspection: the method, the exception it
\* raised ("" when it returned), the snapshot it returned, for connect() the
\* replay_session_id argument, how far the call got, the raw_memory_fields
\* the returned snapshot was normalised from, and the values the call
\* assigned to self.mode, in order.
Call(op, raised, snapshot, replay_arg, path) ==
    [op |-> op, raised |-> raised, snapshot |-> snapshot,
     replay_arg |-> replay_arg, path |-> path, source |-> EmptyDict,
     mode_writes |-> <<>>]

\* LiveBridge.__init__ with a fresh MemoryReader.  last_reason keeps the
\* reason up to its ':'; last_error keeps the stage ("" for {}).
NewBridge ==
    [mode |-> "synthetic",
     connected |-> FALSE,
     last_reason |-> "not_connected",
     replay_session_id |-> "",
     synthetic_wave |-> 1,
     memory_profile |-> NoProfile,
     calibration_candidate |-> "",
     last_memory_values |-> EmptyDict,
     last_error |-> "",
     snapshot_failure_streak |-> 0,
     snapshot_failures_total |-> 0,
     snapshot_transient_failure_count |-> 0,
     connect_failures_total |-> 0,
     connect_transient_failure_count |-> 0,
     connect_retry_success_total |-> 0,
     memory_reader |-> NewReader]

\* A new bridge over a replay directory that holds imported sessions of two
\* snapshots each.
Init ==
    /\ bridge = NewBridge
    /\ threads = NoThreads
    /\ scanner = NoScanner
    /\ replay_store =
          [id \in StoredSessionIds |->
             <<ReplaySnapshot(1, 0, 0, Build({}, FALSE, EmptyDict, EmptyDict)),
               LastSnapshot(id)>>]
    /\ last_call = Call("init", "", NoSnapshot, "", "")
    /\ engine = NoEngine
    /\ candidate_payload = NoCalibration

(* ------------------------------ snapshot() ---------------------------- *)

\* _reopen_and_read_memory_fields: close, open, read_fields; an exception of
\* open or read_fields propagates (res.ok = FALSE carries its message).
_reopen_and_read_memory_fields(reader, open_outcome, read_outcome) ==
    LET opened == ReaderOpen(ReaderClose(reader), open_outcome)
    IN IF ~open_outcome.ok
       THEN [reader |-> opened,
             res |-> [ok |-> FALSE, values |-> EmptyDict, err |-> open_outcome.err]]
       ELSE ReaderRead(opened, read_outcome)

\* The condition under which snapshot() reads memory.
SnapshotReadsMemory(b) ==
    b.mode = "memory" /\ b.connected /\ b.memory_profile # NoProfile

\* A tail of snapshot() that serves the replay session whenever one is
\* recorded, whatever the mode.
SnapshotFallbackByReplayId(b, store) ==
    IF b.replay_session_id # "" /\ ~LatestSnapshotRaises(store, b.replay_session_id)
    THEN Call("snapshot", "",
              _snapshot_with_live_raw_memory_contract(
                  latest_snapshot(store, b.replay_session_id)), "", "replay")
    ELSE Call("snapshot", "", SyntheticSnapshot(b.synthetic_wave), "", "synthetic")

\* The tail of snapshot(): the replay session's last snapshot in replay mode
\* (ReplayError propagates), else a synthetic one at _synthetic_wave.
SnapshotFallback(b, store) ==
    IF b.mode = "replay" /\ b.replay_session_id # ""
    THEN IF LatestSnapshotRaises(store, b.replay_session_id)
         THEN Call("snapshot", "ReplayError", NoSnapshot, "", "replay")
         ELSE LET replay_snapshot == latest_snapshot(store, b.replay_session_id)
              IN [Call("snapshot", "",
                       _snapshot_with_live_raw_memory_contract(replay_snapshot),
                       "", "replay")
                  EXCEPT !.source = IF replay_snapshot.build.has_raw
                                    THEN replay_snapshot.build.raw_memory_fields
                                    ELSE EmptyDict]
    ELSE Call("snapshot", "", SyntheticSnapshot(b.synthetic_wave), "", "synthetic")

\* A recovery that leaves snapshot_failure_streak as the failed read set it.
SnapshotMemorySucceedsKeepingStreak(b, reader, values, failures, path) ==
    LET normalized == _normalize_raw_memory_values(values)
        snapshot == _snapshot_from_memory_values(normalized)
    IN [bridge |->
          [b EXCEPT !.memory_reader = reader,
                    !.snapshot_failures_total = @ + failures,
                    !.snapshot_transient_failure_count = @ + failures,
                    !.snapshot_failure_streak = @ + failures,
                    !.connected = IF failures > 0 THEN TRUE ELSE @,
                    !.mode = IF failures > 0 THEN "memory" ELSE @,
                    !.last_reason = IF failures > 0 THEN "ok" ELSE @,
                    !.last_memory_values = normalized,
                    !.last_error = "",
                    !.synthetic_wave = snapshot.wave],
        call |-> [Call("snapshot", "", snapshot, "", path)
                  EXCEPT !.source = values,
                         !.mode_writes = IF failures > 0 THEN <<"memory">> ELSE <<>>]]

\* Memory mode, the read (or the single reread after a transient error)
\* returned `values`; failures/transients count the errors before it.
SnapshotMemorySucceeds(b, reader, values, failures, path) ==
    LET normalized == _normalize_raw_memory_values(values)
        snapshot == _snapshot_from_memory_values(normalized)
    IN [bridge |->
          [b EXCEPT !.memory_reader = reader,
                    !.snapshot_failures_total = @ + failures,
                    !.snapshot_transient_failure_count = @ + failures,
                    !.snapshot_failure_streak = 0,
                    !.connected = IF failures > 0 THEN TRUE ELSE @,
                    !.mode = IF failures > 0 THEN "memory" ELSE @,
                    !.last_reason = IF failures > 0 THEN "ok" ELSE @,
                    !.last_memory_values = normalized,
                    !.last_error = "",
                    !.synthetic_wave = snapshot.wave],
        call |-> [Call("snapshot", "", snapshot, "", path)
                  EXCEPT !.source = values,
                         !.mode_writes = IF failures > 0 THEN <<"memory">> ELSE <<>>]]

\* A failure handling that counts the failed reread as a failure of its own.
SnapshotMemoryFailsCountingReread(b, store, reader, transients, path) ==
    LET degraded ==
          [b EXCEPT !.memory_reader = ReaderClose(reader),
                    !.snapshot_failures_total = @ + 1 + transients,
                    !.snapshot_failure_streak = @ + 1 + transients,
                    !.snapshot_transient_failure_count = @ + transients,
                    !.connected = FALSE,
                    !.mode = "degraded",
                    !.last_reason = "memory_snapshot_failed:",
                    !.last_error = "snapshot_memory_read"]
    IN [bridge |-> degraded,
        call |-> [SnapshotFallback(degraded, store)
                  EXCEPT !.path = path, !.mode_writes = <<"degraded">>]]

\* Memory mode, the read failed for good: close, degrade, and fall through to
\* the synthetic snapshot.
SnapshotMemoryFails(b, store, reader, transients, path) ==
    LET degraded ==
          [b EXCEPT !.memory_reader = ReaderClose(reader),
                    !.snapshot_failures_total = @ + 1,
                    !.snapshot_failure_streak = @ + 1,
                    !.snapshot_transient_failure_count = @ + transients,
                    !.connected = FALSE,
                    !.mode = "degraded",
                    !.last_reason = "memory_snapshot_failed:",
                    !.last_error = "snapshot_memory_read"]
    IN [bridge |-> degraded,
        call |-> [SnapshotFallback(degraded, store)
                  EXCEPT !.path = path, !.mode_writes = <<"degraded">>]]

\* The environment of one snapshot() call: what the first read, the reopen
\* and the reread would return.  Only the outcomes a path consumes vary.
SnapshotScripts(profile) ==
    LET ok_open == [ok |-> TRUE, err |-> NoError]
        reads == ReadOutcomes(profile)
        any_read == CHOOSE r \in reads : ~r.ok /\ ~r.err.rpm /\ ~r.err.w299
        transient == CHOOSE r \in reads : ~r.ok /\ _is_transient_memory_error(r.err)
    IN {[read1 |-> r, open2 |-> ok_open, read2 |-> any_read] :
            r \in {x \in reads : x.ok \/ ~_is_transient_memory_error(x.err)}}
       \cup {[read1 |-> r, open2 |-> o, read2 |-> any_read] :
            r \in {x \in reads : ~x.ok /\ _is_transient_memory_error(x.err)},
            o \in {x \in OpenOutcomes : ~x.ok}}
       \cup {[read1 |-> transient, open2 |-> ok_open, read2 |-> r] : r \in reads}

\* LiveBridge.snapshot as a function of the bridge, the store and the
\* environment: the bridge afterwards and the finished call.
snapshot(b0, store, script) ==
    LET b == [b0 EXCEPT !.memory_reader = BeginCall(@)]
    IN IF SnapshotReadsMemory(b)
       THEN LET r1 == ReaderRead(b.memory_reader, script.read1)
                r2 == _reopen_and_read_memory_fields(r1.reader, script.open2, script.read2)
            IN IF r1.res.ok
               THEN SnapshotMemorySucceeds(b, r1.reader, r1.res.values, 0, "read")
               ELSE IF _is_transient_memory_error(r1.res.err)
                    THEN IF r2.res.ok
                         THEN SnapshotMemorySucceeds(b, r2.reader, r2.res.values, 1,
                                                     "reread")
                         ELSE SnapshotMemoryFails(b, store, r2.reader, 1, "reread_failed")
                    ELSE SnapshotMemoryFails(b, store, r1.reader, 0, "read_failed")
       ELSE [bridge |-> b, call |-> SnapshotFallback(b, store)]

\* Whether the call records a failed read (the counters it raises are capped).
SnapshotRecordsFailure(b, script) ==
    SnapshotReadsMemory(b) /\ (b.memory_reader.handle = 0 \/ ~script.read1.ok)

Snapshot ==
    \E script \in IF SnapshotReadsMemory(bridge)
                  THEN SnapshotScripts(bridge.memory_profile)
                  ELSE {CHOOSE x \in SnapshotScripts(NoProfile) : TRUE} :
        /\ SnapshotRecordsFailure(bridge, script) =>
               bridge.snapshot_failures_total < MaxSnapshotFailures
        /\ bridge' = snapshot(bridge, replay_store, script).bridge
        /\ last_call' = snapshot(bridge, replay_store, script).call
        /\ UNCHANGED <<replay_store, engine, candidate_payload, scanner, threads>>

(* ------------------------------ connect() ----------------------------- *)

\* A retry whose success is not counted.
ConnectRetryUncounted(reader, profile, script) ==
    LET opened == ReaderOpen(reader, script.open1)
        first == IF script.open1.ok
                 THEN ReaderRead(opened, script.read1)
                 ELSE [reader |-> opened,
                       res |-> [ok |-> FALSE, values |-> EmptyDict,
                                err |-> script.open1.err]]
        second == _reopen_and_read_memory_fields(first.reader, script.open2,
                                                 script.read2)
        Result(rd, outcome, values, failures, transients, retries) ==
            [reader |-> rd, outcome |-> outcome, values |-> values,
             failures |-> failures, transients |-> transients, retries |-> retries]
    IN IF EnsureResolvedRaises(profile)
       THEN Result(reader, "MemoryProfileError", EmptyDict, 0, 0, 0)
       ELSE IF first.res.ok
       THEN Result(first.reader, "ok",
                   _normalize_raw_memory_values(first.res.values), 0, 0, 0)
       ELSE IF ~_is_transient_memory_error(first.res.err)
       THEN Result(first.reader, "MemoryReaderError", EmptyDict, 1, 0, 0)
       ELSE IF second.res.ok
       THEN Result(second.reader, "ok",
                   _normalize_raw_memory_values(second.res.values), 1, 1, 0)
       ELSE Result(second.reader, "MemoryReaderError", EmptyDict, 2, 1, 0)

\* _connect_open_and_read_with_single_retry: the reader afterwards, how the
\* call ended ("ok", or the exception class connect() catches), the
\* normalised values, and the additions to connect_failures_total,
\* connect_transient_failure_count and connect_retry_success_total.
_connect_open_and_read_with_single_retry(reader, profile, script) ==
    LET opened == ReaderOpen(reader, script.open1)
        first == IF script.open1.ok
                 THEN ReaderRead(opened, script.read1)
                 ELSE [reader |-> opened,
                       res |-> [ok |-> FALSE, values |-> EmptyDict,
                                err |-> script.open1.err]]
        second == _reopen_and_read_memory_fields(first.reader, script.open2,
                                                 script.read2)
        Result(rd, outcome, values, failures, transients, retries) ==
            [reader |-> rd, outcome |-> outcome, values |-> values,
             failures |-> failures, transients |-> transients, retries |-> retries]
    IN IF EnsureResolvedRaises(profile)
       THEN Result(reader, "MemoryProfileError", EmptyDict, 0, 0, 0)
       ELSE IF first.res.ok
       THEN Result(first.reader, "ok",
                   _normalize_raw_memory_values(first.res.values), 0, 0, 0)
       ELSE IF ~_is_transient_memory_error(first.res.err)
       THEN Result(first.reader, "MemoryReaderError", EmptyDict, 1, 0, 0)
       ELSE IF second.res.ok
       THEN Result(second.reader, "ok",
                   _normalize_raw_memory_values(second.res.values), 1, 1, 1)
       ELSE Result(second.reader, "MemoryReaderError", EmptyDict, 2, 1, 0)

\* The end of connect() once memory is out: the replay session when one was
\* named (and loads), else degraded with the memory failure's reason or
\* memory_unavailable_no_replay.
ConnectFallback(b, store, replay_arg, explicit_connect_failure_reason) ==
    IF replay_arg # ""
    THEN IF LoadSessionRaises(store, replay_arg)
         THEN [b EXCEPT !.connected = FALSE, !.mode = "degraded",
                        !.last_reason = "memory_unavailable_replay_session_not_found",
                        !.replay_session_id = ""]
         ELSE [b EXCEPT !.connected = FALSE, !.mode = "replay",
                        !.last_reason = "using_replay_fallback",
                        !.replay_session_id = replay_arg,
                        !.last_error = ""]
    ELSE IF explicit_connect_failure_reason # ""
    THEN [b EXCEPT !.connected = FALSE, !.mode = "degraded",
                   !.last_reason = explicit_connect_failure_reason,
                   !.replay_session_id = ""]
    ELSE [b EXCEPT !.connected = FALSE, !.mode = "degraded",
                   !.last_reason = "memory_unavailable_no_replay",
                   !.replay_session_id = ""]

\* No calibration candidate: the payload could not be loaded or applied
\* (MemoryProfileError).
NoCandidate == [id |-> "", fields |-> [x \in {} |-> 0]]

\* LiveBridge.connect as a function of the bridge, the store, the arguments
\* and the environment c: the bridge afterwards and the finished call.
connect(b0, store, c) ==
    LET b1 == [b0 EXCEPT !.memory_reader = ReaderClose(BeginCall(@)),
                         !.memory_profile = NoProfile,
                         !.last_memory_values = EmptyDict,
                         !.last_error = "",
                         !.snapshot_failure_streak = 0,
                         !.snapshot_failures_total = 0,
                         !.snapshot_transient_failure_count = 0,
                         !.connect_failures_total = 0,
                         !.connect_transient_failure_count = 0,
                         !.connect_retry_success_total = 0,
                         !.calibration_candidate = ""]
        Done(b, raised, path) ==
            [bridge |-> b,
             call |->
               [Call("connect", raised, NoSnapshot, c.replay_session_id, path)
                EXCEPT !.mode_writes =
                  CASE path \in {"catalog"} -> <<>>
                    [] path \in {"memory_failed", "memory_retry_failed"} ->
                         <<"degraded", b.mode>>
                    [] OTHER -> <<b.mode>>]]
        required_fields ==
            IF Len(c.profile.required_combat_fields) > 0
            THEN c.profile.required_combat_fields ELSE REQUIRED_MEMORY_FIELDS
        explicit_calibration_request == c.explicit_calibration
        implicit_calibration_discovery ==
            ~explicit_calibration_request
              /\ _profile_has_unresolved_required_fields(c.profile, required_fields)
        calibrated ==
            (explicit_calibration_request \/ implicit_calibration_discovery)
              /\ c.calibration # NoCandidate
        profile == IF calibrated
                   THEN apply_calibration_candidate(c.profile, c.calibration)
                   ELSE c.profile
        b2 == [b1 EXCEPT !.memory_profile = profile,
                         !.calibration_candidate =
                             IF calibrated THEN c.calibration.id ELSE ""]
        require_admin == c.require_admin \/ profile.required_admin
        m == _connect_open_and_read_with_single_retry(b2.memory_reader, profile,
                                                      c.script)
        b3 == [b2 EXCEPT !.memory_reader = m.reader,
                         !.connect_failures_total = @ + m.failures,
                         !.connect_transient_failure_count = @ + m.transients,
                         !.connect_retry_success_total = @ + m.retries]
        failure_reason == IF m.outcome = "MemoryProfileError"
                          THEN "memory_profile_invalid:"
                          ELSE "memory_connect_failed:"
        failure_stage == IF m.outcome = "MemoryProfileError"
                         THEN "connect_profile_validate"
                         ELSE "connect_memory_open"
    IN IF ~c.catalog_ok
       THEN Done(b1, "CatalogError", "catalog")
       ELSE IF c.profile = NoProfile
       THEN Done([b1 EXCEPT !.connected = FALSE, !.mode = "degraded",
                            !.last_reason = "memory_profile_invalid:",
                            !.replay_session_id = "",
                            !.last_error = "connect_profile_load"],
                 "", "profile_load")
       ELSE IF explicit_calibration_request /\ ~calibrated
       THEN Done([b1 EXCEPT !.connected = FALSE, !.mode = "degraded",
                            !.last_reason = "memory_profile_invalid:",
                            !.replay_session_id = "",
                            !.last_error = "connect_calibration_apply"],
                 "", "calibration_apply")
       ELSE IF c.has_process /\ require_admin /\ ~c.is_admin
       THEN Done([b2 EXCEPT !.connected = FALSE, !.mode = "degraded",
                            !.last_reason = "process_found_but_admin_required"],
                 "", "admin_required")
       ELSE IF c.has_process /\ m.outcome = "ok"
       THEN Done([b3 EXCEPT !.last_memory_values = m.values,
                            !.connected = TRUE, !.mode = "memory",
                            !.last_reason = "ok", !.replay_session_id = "",
                            !.last_error = ""],
                 "", IF m.retries = 1 THEN "memory_retry" ELSE "memory")
       ELSE IF c.has_process
       THEN Done(ConnectFallback(
                     [b3 EXCEPT !.memory_reader = ReaderClose(@),
                                !.connected = FALSE, !.mode = "degraded",
                                !.last_reason = failure_reason,
                                !.last_error = failure_stage],
                     store, c.replay_session_id, failure_reason),
                 "", IF m.transients = 1 THEN "memory_retry_failed"
                     ELSE "memory_failed")
       ELSE Done(ConnectFallback(b2, store, c.replay_session_id, ""),
                 "", "no_process")

\* What one connect() call is given and finds: whether the catalog loads, the
\* signature profile it yields (NoProfile: MemoryProfileError), whether a
\* calibration path or candidate id was passed, the candidate the payload
\* yields (NoCandidate: MemoryProfileError), _process_exists, _is_admin_context,
\* the require_admin and replay_session_id arguments, and what the reader's
\* open and read_fields calls return, in order.
ConnectInput(catalog_ok, profile, explicit, calibration, process, replay, script) ==
    [catalog_ok |-> catalog_ok, profile |-> profile,
     explicit_calibration |-> explicit, calibration |-> calibration,
     has_process |-> process[1], is_admin |-> process[2],
     require_admin |-> process[3], replay_session_id |-> replay, script |-> script]

ReplayArgs == {""} \cup SessionIds

\* <<has_process, is_admin, require_admin>>
ProcessCases ==
    {<<FALSE, TRUE, FALSE>>, <<TRUE, FALSE, TRUE>>, <<TRUE, TRUE, TRUE>>,
     <<TRUE, FALSE, FALSE>>}

OkOpen == [ok |-> TRUE, err |-> NoError]

\* The validation reads sampled at connect time.
ConnectReads(profile) ==
    {r \in ReadOutcomes(profile) :
        r.ok => /\ r.values["current_wave"].n \in {Scale, Scale * MaxReading}
                /\ "player_hp" \in DOMAIN r.values =>
                       r.values["player_hp"].n = 1 /\ r.values["enemies_alive"].n = Scale}

\* Every way the (at most two) open + read attempts of a connect can go.
ConnectScripts(profile) ==
    LET reads == ConnectReads(profile)
        some == CHOOSE r \in reads : r.ok
        transient == CHOOSE r \in reads : ~r.ok /\ _is_transient_memory_error(r.err)
        Script(o1, r1, o2, r2) == [open1 |-> o1, read1 |-> r1, open2 |-> o2, read2 |-> r2]
    IN {Script(o, some, OkOpen, some) : o \in {x \in OpenOutcomes : ~x.ok}}
       \cup {Script(OkOpen, r, OkOpen, some) :
                r \in {x \in reads : x.ok \/ ~_is_transient_memory_error(x.err)}}
       \cup {Script(OkOpen, transient, o, some) : o \in {x \in OpenOutcomes : ~x.ok}}
       \cup {Script(OkOpen, transient, OkOpen, r) : r \in reads}

\* A first read that succeeds, and one that fails for good.
CoarseScripts(profile) ==
    {sc \in ConnectScripts(profile) :
        sc.open1.ok /\ (sc.read1.ok \/ ~sc.read1.err.w299)
                    /\ (~sc.read1.ok => sc.read1.err.rpm)}

OneScript(profile) == CHOOSE sc \in CoarseScripts(profile) : sc.read1.ok

\* The calibration outcomes a connect can meet for a profile: none is looked
\* for unless it is asked for or the profile has unresolved required fields.
CalibrationCases(profile) ==
    {<<TRUE, cal>> : cal \in CalibrationCandidates \cup {NoCandidate}}
      \cup (IF _profile_has_unresolved_required_fields(profile,
                                                       profile.required_combat_fields)
            THEN {<<FALSE, cal>> : cal \in CalibrationCandidates \cup {NoCandidate}}
            ELSE {<<FALSE, NoCandidate>>})

PlainProfile == BaseProfile(4100, FALSE)

Proceeds == <<TRUE, TRUE, FALSE>>

\* <<replay_session_id, script>> pairs of the coarse family.
CoarseCases(profile) ==
    {<<"", OneScript(profile)>>}
      \cup {<<"r1", sc>> : sc \in {x \in CoarseScripts(profile) : ~x.read1.ok}}

\* The inputs of connect() that are explored: a catalog or profile that does
\* not load; every open/read script with the plain profile; every profile and
\* calibration case with the coarse scripts; every process case; every
\* replay session id when no process runs.
ConnectInputs ==
    {ConnectInput(ok, NoProfile, FALSE, NoCandidate, Proceeds, r,
                  OneScript(PlainProfile)) : ok \in BOOLEAN, r \in {"", "r1"}}
    \cup {ConnectInput(TRUE, PlainProfile, FALSE, NoCandidate, Proceeds, r, sc) :
              r \in {"", "r1"}, sc \in ConnectScripts(PlainProfile)}
    \cup UNION {
           {ConnectInput(TRUE, p, cc[1], cc[2], Proceeds, rs[1], rs[2]) :
                cc \in CalibrationCases(p), rs \in CoarseCases(p)} :
           p \in {PlainProfile, BaseProfile(0, FALSE), CombatProfile}}
    \cup {ConnectInput(TRUE, PlainProfile, FALSE, NoCandidate, pc, r,
                       OneScript(PlainProfile)) :
              pc \in ProcessCases, r \in {"", "r1"}}
    \cup {ConnectInput(TRUE, PlainProfile, FALSE, NoCandidate, <<FALSE, TRUE, FALSE>>,
                       r, OneScript(PlainProfile)) : r \in ReplayArgs}
    \cup {ConnectInput(TRUE, BaseProfile(4100, TRUE), FALSE, NoCandidate, pc, r,
                       OneScript(PlainProfile)) :
              pc \in ProcessCases, r \in {"", "r1"}}

Connect ==
    \E c \in ConnectInputs :
      \E r \in {connect(bridge, replay_store, c)} :
        /\ bridge' = r.bridge
        /\ last_call' = r.call
        /\ UNCHANGED <<replay_store, engine, candidate_payload, scanner, threads>>

(* ---------------------------- autoconnect() --------------------------- *)

\* The loop of autoconnect(): one connect() per candidate of the attempt
\* order, until one ends in memory mode (or raises).
RECURSIVE AutoconnectFrom(_, _, _, _)
AutoconnectFrom(b, store, attempts, index) ==
    LET status == connect(b, store, attempts[index])
    IN IF status.bridge.mode = "memory" \/ status.call.raised # ""
          \/ index = Len(attempts)
       THEN [status EXCEPT !.call.op = "autoconnect"]
       ELSE AutoconnectFrom(status.bridge, store, attempts, index + 1)

\* LiveBridge.autoconnect: when the calibration payload does not load and a
\* path or candidate was asked for, MemoryProfileError propagates before any
\* connect(); else the attempts run.
autoconnect(b, store, a) ==
    IF ~a.payload_loads /\ a.explicit_calibration
    THEN [bridge |-> b,
          call |-> Call("autoconnect", "MemoryProfileError", NoSnapshot,
                        a.replay_session_id, "calibration_load")]
    ELSE AutoconnectFrom(b, store, a.attempts, 1)

\* The candidate ids in the attempt order of the sampled payload; both
\* resolve every required field.
CandidateAttemptOrder == <<"candidate_full", "candidate_alt">>

CandidateById(id) ==
    CHOOSE cand \in CalibrationCandidates
                      \cup {[id |-> "candidate_alt", fields |-> [gold |-> 21844]]} :
        cand.id = id

\* <<has_process, script>> of one attempt: no process, a read that
\* succeeds, a read that fails.
AttemptCases(profile) ==
    {<<<<FALSE, TRUE, FALSE>>, OneScript(profile)>>}
      \cup {<<Proceeds, sc>> : sc \in CoarseScripts(profile)}

\* The inputs of autoconnect() that are explored.  With a payload, attempt k
\* passes the payload's path and the k-th candidate id to connect(); without
\* one, the single attempt passes neither.
AutoconnectInputs ==
    {[explicit_calibration |-> TRUE, payload_loads |-> FALSE,
      replay_session_id |-> "", attempts |-> <<>>]}
    \cup UNION {
           {[explicit_calibration |-> FALSE, payload_loads |-> TRUE,
             replay_session_id |-> r,
             attempts |->
               [k \in 1..Len(CandidateAttemptOrder) |->
                  ConnectInput(TRUE, p, TRUE, CandidateById(CandidateAttemptOrder[k]),
                               cases[k][1], r, cases[k][2])]] :
                r \in {"", "r1"},
                cases \in [1..Len(CandidateAttemptOrder) -> AttemptCases(p)]} :
           p \in {BaseProfile(0, FALSE)}}
    \cup UNION {
           {[explicit_calibration |-> FALSE, payload_loads |-> FALSE,
             replay_session_id |-> r,
             attempts |-> <<ConnectInput(TRUE, p, FALSE, NoCandidate,
                                         case[1], r, case[2])>>] :
                r \in {"", "r1"}, case \in AttemptCases(p)} :
           p \in {BaseProfile(0, FALSE)}}

Autoconnect ==
    \E a \in AutoconnectInputs :
      \E r \in {autoconnect(bridge, replay_store, a)} :
        /\ bridge' = r.bridge
        /\ last_call' = r.call
        /\ UNCHANGED <<replay_store, engine, candidate_payload, scanner, threads>>

Next == Connect \/ Autoconnect \/ Snapshot

Spec == Init /\ [][Next]_vars


(* ------------------ the contract as a pure function ------------------- *)

\* A key that a sampled payload leaves out.
Absent == [k |-> "absent", n |-> 0, s |-> ""]

\* The dict holding the keys of `fields` that are not left out.
DictOf(fields) ==
    [key \in {x \in DOMAIN fields : fields[x] # Absent} |-> fields[key]]

\* raw_memory_fields payloads over the HP, leak, enemy and combat-phase
\* aliases: whole and fractional numbers, negative ones, strings and bools.
ContractInputs ==
    {DictOf([player_hp |-> c, max_hp |-> m, leaks |-> l, enemies_alive |-> e,
             in_combat |-> p]) :
        c \in {Absent, Num(-Scale), Num(1), Num(Scale * MaxReading)},
        m \in {Absent, Num(1), Num(Scale * MaxReading + 1), Str("3")},
        l \in {Absent, Num(Scale), Str("abc")},
        e \in {Absent, Num(1), Num(Scale), Bool(TRUE)},
        p \in {Absent, Str("no"), Str("maybe"), Bool(TRUE)}}

\* A new bridge and a snapshot about to be post-processed: `source` is the
\* raw_memory_fields payload it carries.
ContractInit ==
    /\ bridge = NewBridge
    /\ threads = NoThreads
    /\ scanner = NoScanner
    /\ replay_store = [id \in {} |-> <<>>]
    /\ \E values \in ContractInputs :
          last_call = [Call("init", "", NoSnapshot, "", "") EXCEPT !.source = values]
    /\ engine = NoEngine
    /\ candidate_payload = NoCalibration

\* _snapshot_with_live_raw_memory_contract applied to that snapshot.
ApplyContract ==
    /\ last_call.op = "init"
    /\ last_call' =
         [Call("_snapshot_with_live_raw_memory_contract", "",
               _snapshot_with_live_raw_memory_contract(
                   LiveSnapshot(1, 0, 0,
                                Build({"towers"}, TRUE, last_call.source, EmptyDict),
                                "replay")),
               "", "contract")
          EXCEPT !.source = last_call.source]
    /\ UNCHANGED <<bridge, replay_store, engine, candidate_payload, scanner, threads>>

SpecContract == ContractInit /\ [][ApplyContract]_vars

(* ------------------------------- claims ------------------------------- *)

\* The reader calls of the bridge call that ended last, and their methods.
CallLog == bridge.memory_reader.calls

Methods(log) == [i \in DOMAIN log |-> log[i].m]

CountOf(log, methods) == Cardinality({i \in DOMAIN log : log[i].m \in methods})

\* "the message contains both 'winerr=299' and 'ReadProcessMemory failed'"
TransientText(err) == err.w299 /\ err.rpm

\* The snapshot() that ended last read memory and its first read failed.
SnapshotReadFailed(before, called, log) ==
    /\ called.op = "snapshot"
    /\ SnapshotReadsMemory(before)
    /\ Len(log) >= 1 /\ log[1].m = "read_failed"

ReturnedSnapshot(called) == called.op = "snapshot" /\ called.raised = ""

\* C1: in memory mode, a snapshot() whose read fails with a transient error
\* closes, reopens and rereads exactly once; when the reread succeeds the call
\* returns a memory snapshot, self.mode is never assigned "degraded" and stays
\* "memory", snapshot_transient_failure_count and snapshot_failures_total grow
\* by one each, and snapshot_failure_streak is 0.
C1_SnapshotTransientRecovery ==
    [][ (SnapshotReadFailed(bridge, last_call', CallLog') /\ TransientText(CallLog'[1].err))
        => /\ CountOf(CallLog', {"open", "open_failed"}) = 1
           /\ CountOf(CallLog', {"read", "read_failed"}) <= 2
           /\ CallLog'[2].m = "close"
           /\ (CallLog'[Len(CallLog')].m = "read"
               => /\ Methods(CallLog') = <<"read_failed", "close", "close", "open", "read">>
                  /\ last_call'.raised = ""
                  /\ last_call'.snapshot.source_mode = "memory"
                  /\ bridge'.mode = "memory"
                  /\ bridge'.connected
                  /\ \A i \in DOMAIN last_call'.mode_writes :
                         last_call'.mode_writes[i] # "degraded"
                  /\ bridge'.snapshot_transient_failure_count
                       = bridge.snapshot_transient_failure_count + 1
                  /\ bridge'.snapshot_failures_total = bridge.snapshot_failures_total + 1
                  /\ bridge'.snapshot_failure_streak = 0) ]_vars

C1_Witness ==
    /\ ReturnedSnapshot(last_call)
    /\ Methods(CallLog) = <<"read_failed", "close", "close", "open", "read">>
    /\ TransientText(CallLog[1].err)
    /\ last_call.snapshot.source_mode = "memory"
    /\ bridge.snapshot_failures_total = MaxSnapshotFailures

\* C2: in memory mode, a snapshot() whose read fails with a non-transient
\* error, or with a transient one whose single reread fails too, closes the
\* reader, leaves the bridge degraded with reason memory_snapshot_failed: and
\* last_error stage snapshot_memory_read, keeps last_memory_values, and returns
\* a synthetic snapshot; a non-transient error makes no reopen and no reread.
C2_SnapshotFailureDegrades ==
    [][ (/\ SnapshotReadFailed(bridge, last_call', CallLog')
         /\ (TransientText(CallLog'[1].err) => CallLog'[Len(CallLog')].m # "read"))
        => /\ bridge'.memory_reader.handle = 0
           /\ bridge'.memory_reader.backend_open = {}
           /\ CallLog'[Len(CallLog')].m = "close"
           /\ bridge'.mode = "degraded"
           /\ ~bridge'.connected
           /\ bridge'.last_reason = "memory_snapshot_failed:"
           /\ bridge'.last_error = "snapshot_memory_read"
           /\ bridge'.last_memory_values = bridge.last_memory_values
           /\ last_call'.raised = ""
           /\ last_call'.snapshot.source_mode = "synthetic"
           /\ (~TransientText(CallLog'[1].err)
               => Methods(CallLog') = <<"read_failed", "close">>) ]_vars

C2_Witness ==
    /\ ReturnedSnapshot(last_call)
    /\ Methods(CallLog) = <<"read_failed", "close", "close", "open", "read_failed", "close">>
    /\ bridge.mode = "degraded"
    /\ bridge.last_error = "snapshot_memory_read"
    /\ "current_wave" \in DOMAIN bridge.last_memory_values
    /\ last_call.snapshot.source_mode = "synthetic"

\* The open (or failed open) calls of a connect(): each is one attempt.
Attempts(log) == CountOf(log, {"open", "open_failed"})

\* connect() closes the reader, then opens (open closes first) and reads: the
\* message of the first attempt's failure, when it failed.
FirstAttemptFailed(log) ==
    \/ Len(log) >= 3 /\ log[3].m = "open_failed"
    \/ Len(log) >= 4 /\ log[3].m = "open" /\ log[4].m = "read_failed"

FirstAttemptError(log) == IF log[3].m = "open_failed" THEN log[3].err ELSE log[4].err

\* C3: a connect() whose first open + validation read fails with a transient
\* error reopens and rereads exactly once; when that retry succeeds the bridge
\* is in mode memory with reason ok and connect_retry_success_total,
\* connect_transient_failure_count and connect_failures_total are all 1.
C3_ConnectTransientRetry ==
    (/\ last_call.op = "connect"
     /\ FirstAttemptFailed(CallLog)
     /\ TransientText(FirstAttemptError(CallLog)))
    => /\ Attempts(CallLog) = 2
       /\ CountOf(CallLog, {"read", "read_failed"}) <= 2
       /\ (CallLog[Len(CallLog)].m = "read"
           => /\ CountOf(CallLog, {"read", "read_failed"}) = 2
              /\ bridge.mode = "memory"
              /\ bridge.connected
              /\ bridge.last_reason = "ok"
              /\ bridge.connect_retry_success_total = 1
              /\ bridge.connect_transient_failure_count = 1
              /\ bridge.connect_failures_total = 1)

C3_Witness ==
    /\ last_call.op = "connect"
    /\ FirstAttemptFailed(CallLog)
    /\ TransientText(FirstAttemptError(CallLog))
    /\ CallLog[Len(CallLog)].m = "read"
    /\ bridge.mode = "memory"
    /\ bridge.connect_retry_success_total = 1

\* C4: one connect() makes at most two open + read attempts; a first failure
\* that is not transient is not retried; when the retry after a transient
\* failure fails too the reader is closed and the bridge is not in memory
\* mode, and is degraded when no replay session was supplied.
C4_ConnectRetryBounded ==
    last_call.op = "connect"
    => /\ Attempts(CallLog) <= 2
       /\ CountOf(CallLog, {"read", "read_failed"}) <= 2
       /\ (FirstAttemptFailed(CallLog) /\ ~TransientText(FirstAttemptError(CallLog))
           => Attempts(CallLog) = 1)
       /\ (/\ FirstAttemptFailed(CallLog)
           /\ TransientText(FirstAttemptError(CallLog))
           /\ CallLog[Len(CallLog)].m # "read"
           => /\ bridge.memory_reader.handle = 0
              /\ bridge.memory_reader.backend_open = {}
              /\ bridge.mode # "memory"
              /\ ~bridge.connected
              /\ (last_call.replay_arg = "" => bridge.mode = "degraded"))

C4_Witness ==
    /\ last_call.op = "connect"
    /\ FirstAttemptFailed(CallLog)
    /\ TransientText(FirstAttemptError(CallLog))
    /\ Attempts(CallLog) = 2
    /\ CallLog[Len(CallLog)].m = "close"
    /\ last_call.replay_arg = ""
    /\ bridge.mode = "degraded"

\* C5: a snapshot() called on a degraded bridge does not raise, returns a
\* synthetic snapshot whose raw_memory_fields hold every contract field, and
\* leaves the bridge degraded.
C5_DegradedSnapshotIsSynthetic ==
    [][ (bridge.mode = "degraded" /\ last_call'.op = "snapshot")
        => /\ last_call'.raised = ""
           /\ last_call'.snapshot.source_mode = "synthetic"
           /\ last_call'.snapshot.build.has_raw
           /\ ContractFields \subseteq DOMAIN last_call'.snapshot.build.raw_memory_fields
           /\ bridge'.mode = "degraded" ]_vars

C5_Witness ==
    /\ ReturnedSnapshot(last_call)
    /\ last_call.path = "synthetic"
    /\ bridge.mode = "degraded"
    /\ bridge.replay_session_id # ""
    /\ last_call.snapshot.source_mode = "synthetic"

\* C6: after any sequence of connect(), autoconnect() and snapshot() calls the
\* backend holds at most one handle open for the reader, it never held more,
\* the open one is the reader's, and every open of the last call came right
\* after a close.
C6_AtMostOneHandle ==
    /\ Cardinality(bridge.memory_reader.backend_open) <= 1
    /\ bridge.memory_reader.peak_open <= 1
    /\ bridge.memory_reader.backend_open
         = IF bridge.memory_reader.handle = 0 THEN {} ELSE {bridge.memory_reader.handle}
    /\ \A i \in DOMAIN CallLog :
          CallLog[i].m \in {"open", "open_failed"} => i > 1 /\ CallLog[i - 1].m = "close"

C6_Witness ==
    /\ last_call.op = "autoconnect"
    /\ bridge.calibration_candidate = "candidate_alt"
    /\ bridge.mode = "memory"
    /\ bridge.memory_reader.handle # 0
    /\ bridge.memory_reader.backend_open = {bridge.memory_reader.handle}
    /\ bridge.memory_reader.peak_open = 1

\* C7: a connect() whose signature profile (calibration included) loads and
\* which does not end in memory mode ends in replay mode, with the session id
\* recorded and reason using_replay_fallback, whenever a replay_session_id the
\* store can load was supplied.
C7_ReplayFallbackWheneverSupplied ==
    (/\ last_call.op = "connect"
     /\ last_call.raised = ""
     /\ last_call.path \notin {"profile_load", "calibration_apply"}
     /\ bridge.mode # "memory"
     /\ last_call.replay_arg # ""
     /\ ~LoadSessionRaises(replay_store, last_call.replay_arg))
    => /\ bridge.mode = "replay"
       /\ bridge.replay_session_id = last_call.replay_arg
       /\ bridge.last_reason = "using_replay_fallback"

\* What holds of a returned snapshot's raw_memory_fields whatever the source:
\* every contract field is there, and a numeric field other than leaks_total,
\* or boss_alive, that the source has under no alias holds its default.
ContractFieldsDefaulted(source, raw) ==
    /\ ContractFields \subseteq DOMAIN raw
    /\ \A f \in NumericFields \ {"leaks_total"} :
          ~HasAnyAlias(source, LIVE_RAW_MEMORY_FIELD_ALIASES[f])
            => raw[f] = Num(IF f = "tower_inflation_index" THEN Scale ELSE 0)
    /\ ~HasAnyAlias(source, LIVE_RAW_MEMORY_FIELD_ALIASES["boss_alive"])
         => raw["boss_alive"] = Bool(FALSE)

\* C8 (as stated): every snapshot returned by snapshot() holds all 19 numeric
\* and both boolean contract fields, every numeric field absent from the
\* source at its default and every absent boolean false.
C8_AbsentFieldsTakeDefaults ==
    ReturnedSnapshot(last_call)
    => LET raw == last_call.snapshot.build.raw_memory_fields
           source == last_call.source
       IN /\ last_call.snapshot.build.has_raw
          /\ ContractFieldsDefaulted(source, raw)
          /\ ~HasAnyAlias(source, LIVE_RAW_MEMORY_FIELD_ALIASES["leaks_total"])
               => raw["leaks_total"] = Num(0)
          /\ ~HasAnyAlias(source, LIVE_RAW_MEMORY_FIELD_ALIASES["is_combat_phase"])
               => raw["is_combat_phase"] = Bool(FALSE)

\* C8 (amended): every snapshot returned by snapshot() holds all 19 numeric
\* and both boolean contract fields; an absent numeric field other than
\* leaks_total holds its default and an absent boss_alive is false; an absent
\* leaks_total is 0 unless int(base_hp_max) > 0 and an absent is_combat_phase
\* is false unless int(enemies_alive) > 0 (then they are inferred).
C8_AbsentFieldsDefaultOrInferred ==
    ReturnedSnapshot(last_call)
    => LET raw == last_call.snapshot.build.raw_memory_fields
           source == last_call.source
       IN /\ last_call.snapshot.build.has_raw
          /\ ContractFieldsDefaulted(source, raw)
          /\ (/\ ~HasAnyAlias(source, LIVE_RAW_MEMORY_FIELD_ALIASES["leaks_total"])
              /\ PyInt(raw["base_hp_max"].n) <= 0)
               => raw["leaks_total"] = Num(0)
          /\ (/\ ~HasAnyAlias(source, LIVE_RAW_MEMORY_FIELD_ALIASES["is_combat_phase"])
              /\ PyInt(raw["enemies_alive"].n) <= 0)
               => raw["is_combat_phase"] = Bool(FALSE)

C8_Witness ==
    /\ ReturnedSnapshot(last_call)
    /\ last_call.snapshot.source_mode = "memory"
    /\ "max_player_hp" \in DOMAIN last_call.source
    /\ last_call.snapshot.build.raw_memory_fields["leaks_total"].n > 0
    /\ last_call.snapshot.build.raw_memory_fields["is_combat_phase"] = Bool(TRUE)
    /\ last_call.snapshot.build.raw_memory_fields["tower_inflation_index"] = Num(Scale)

\* The call that ended last normalised a raw_memory_fields payload.
Normalised(called) == called.op = "_snapshot_with_live_raw_memory_contract"

\* The value the first alias present in the source holds, when it is a number
\* or a bool (Absent otherwise).
FirstPresent(source, aliases) ==
    IF HasAnyAlias(source, aliases)
    THEN source[aliases[CHOOSE i \in DOMAIN aliases :
                          /\ aliases[i] \in DOMAIN source
                          /\ \A j \in 1..(i - 1) : aliases[j] \notin DOMAIN source]]
    ELSE Absent

\* A leaks_total or is_combat_phase the source supplies as a number or a bool
\* is what the normalised payload holds.
DirectValuesKept(source, raw) ==
    LET leaks == FirstPresent(source, LIVE_RAW_MEMORY_FIELD_ALIASES["leaks_total"])
        phase == FirstPresent(source, LIVE_RAW_MEMORY_FIELD_ALIASES["is_combat_phase"])
    IN /\ leaks.k = "num" => raw["leaks_total"] = leaks
       /\ phase.k = "bool" => raw["is_combat_phase"] = phase
       /\ (leaks.k = "str" /\ ~StrToFloat(leaks.s).ok) => raw["leaks_total"] = Num(0)
       /\ (phase.k = "str" /\ StrToBool(phase.s) \in {"f", "u"})
            => raw["is_combat_phase"] = Bool(FALSE)

\* C9 (as stated): with leaks_total absent under every alias and
\* base_hp_max > 0, leaks_total = max(0, base_hp_max - max(0, base_hp_current));
\* with is_combat_phase absent, is_combat_phase = (enemies_alive > 0); a value
\* supplied directly is never replaced by the inferred one.
C9_InferenceOverTheValues ==
    Normalised(last_call)
    => LET raw == last_call.snapshot.build.raw_memory_fields
           source == last_call.source
       IN /\ (/\ ~HasAnyAlias(source, LIVE_RAW_MEMORY_FIELD_ALIASES["leaks_total"])
              /\ raw["base_hp_max"].n > 0)
               => raw["leaks_total"].n
                    = Max2(0, raw["base_hp_max"].n - Max2(0, raw["base_hp_current"].n))
          /\ ~HasAnyAlias(source, LIVE_RAW_MEMORY_FIELD_ALIASES["is_combat_phase"])
               => raw["is_combat_phase"] = Bool(raw["enemies_alive"].n > 0)
          /\ DirectValuesKept(source, raw)

\* C9 (amended): the inference works on the values truncated by int(): with
\* leaks_total absent under every alias and int(base_hp_max) > 0, leaks_total =
\* max(0, int(base_hp_max) - max(0, int(base_hp_current))); with
\* is_combat_phase absent, is_combat_phase = (int(enemies_alive) > 0); a value
\* supplied directly is never replaced by the inferred one.
C9_InferenceOverTruncatedValues ==
    Normalised(last_call)
    => LET raw == last_call.snapshot.build.raw_memory_fields
           source == last_call.source
       IN /\ (/\ ~HasAnyAlias(source, LIVE_RAW_MEMORY_FIELD_ALIASES["leaks_total"])
              /\ PyInt(raw["base_hp_max"].n) > 0)
               => raw["leaks_total"].n
                    = Scale * Max2(0, PyInt(raw["base_hp_max"].n)
                                        - Max2(0, PyInt(raw["base_hp_current"].n)))
          /\ ~HasAnyAlias(source, LIVE_RAW_MEMORY_FIELD_ALIASES["is_combat_phase"])
               => raw["is_combat_phase"] = Bool(PyInt(raw["enemies_alive"].n) > 0)
          /\ DirectValuesKept(source, raw)

C9_Witness ==
    /\ Normalised(last_call)
    /\ DOMAIN last_call.source = {"player_hp", "max_hp", "enemies_alive"}
    /\ last_call.source["max_hp"] = Num(Scale * MaxReading + 1)
    /\ last_call.source["player_hp"] = Num(1)
    /\ last_call.source["enemies_alive"] = Num(1)
    /\ last_call.snapshot.build.raw_memory_fields["leaks_total"] = Num(Scale * MaxReading)
    /\ last_call.snapshot.build.raw_memory_fields["is_combat_phase"] = Bool(FALSE)

\* C10: every snapshot returned by snapshot() has wave >= 1 and a source_mode
\* among memory, replay and synthetic.
C10_WaveAtLeastOne ==
    ReturnedSnapshot(last_call)
    => /\ last_call.snapshot.wave >= 1
       /\ last_call.snapshot.source_mode \in {"memory", "replay", "synthetic"}

(* ------------------------- engine: the economy ------------------------ *)

\* Largest initial worker count of a sampled scenario.
MaxWorkers == 3
\* Cap on the towers bought during one economy evaluation.
MaxBuildCount == 3

Min2(a, b) == IF a <= b THEN a ELSE b

Abs(a) == IF a >= 0 THEN a ELSE -a

\* _clamp(value, low, high) = max(low, min(high, value)).
_clamp(value, low, high) == Max2(low, Min2(high, value))

\* An optional payload value: None, or the value held.
None == <<>>

Some(v) == <<v>>

\* dict.get(key, default) on an action payload; the default is optional too.
PayloadGet(payload, key, default) ==
    IF key \in DOMAIN payload THEN Some(payload[key]) ELSE default

\* str.lower().strip() on the sampled resource, action-type, field type and
\* field source names.
LowerStrip(s) ==
    CASE s = "Gold " -> "gold"
      [] s = "ESSENCE" -> "essence"
      [] s = " Build" -> "build"
      [] s = " Float64 " -> "float64"
      [] s = "POINTER_CHAIN" -> "pointer_chain"
      [] OTHER -> s

\* A BuildAction: wave and type are required, value is a float (in 1/Scale
\* units), payload a dict from keys to integers or strings.
BuildAction(wave, at_s, type, target_id, value, payload) ==
    [wave |-> wave, at_s |-> at_s, type |-> type, target_id |-> target_id,
     value |-> value, payload |-> payload]

EmptyPayload == [key \in {} |-> 0]

\* The part of an EconomyDefinition the worker and inflation code reads.
EconomyDefinition(initial_workers, initial_workers_gold, initial_workers_essence,
                  build_cost_inflation_rate, build_cost_inflation_max_multiplier) ==
    [initial_workers |-> initial_workers,
     initial_workers_gold |-> initial_workers_gold,
     initial_workers_essence |-> initial_workers_essence,
     build_cost_inflation_rate |-> build_cost_inflation_rate,
     build_cost_inflation_max_multiplier |-> build_cost_inflation_max_multiplier,
     default_policy_id |-> "balanced",
     policies |-> {"balanced", "greedy"}]

RuntimeEconomyState(total_workers, workers_gold, workers_essence,
                    workers_unassigned, policy_id, build_count) ==
    [total_workers |-> total_workers, workers_gold |-> workers_gold,
     workers_essence |-> workers_essence,
     workers_unassigned |-> workers_unassigned,
     policy_id |-> policy_id, build_count |-> build_count]

_initial_economy_state(economy) ==
    LET total_workers == Max2(0, economy.initial_workers)
        workers_gold == Max2(0, Min2(total_workers, economy.initial_workers_gold))
        workers_essence ==
            Max2(0, Min2(total_workers - workers_gold, economy.initial_workers_essence))
        workers_unassigned == Max2(0, total_workers - workers_gold - workers_essence)
    IN RuntimeEconomyState(
           total_workers, workers_gold, workers_essence, workers_unassigned,
           IF economy.default_policy_id \in economy.policies
           THEN economy.default_policy_id ELSE "balanced",
           0)

\* A distribution that trusts the requested targets: no overflow handling.
WorkerDistributionUnchecked(state, workers_gold, workers_essence) ==
    [state EXCEPT !.workers_gold = Max2(0, workers_gold),
                  !.workers_essence = Max2(0, workers_essence),
                  !.workers_unassigned =
                      Max2(0, state.total_workers - Max2(0, workers_gold)
                                                  - Max2(0, workers_essence))]

_apply_worker_distribution(state, workers_gold, workers_essence) ==
    LET gold0 == Max2(0, workers_gold)
        essence0 == Max2(0, workers_essence)
        overflow == gold0 + essence0 - state.total_workers
        gold ==
            IF overflow > 0 /\ ~(essence0 >= overflow)
            THEN Max2(0, gold0 - (overflow - essence0)) ELSE gold0
        essence ==
            IF overflow > 0
            THEN (IF essence0 >= overflow THEN essence0 - overflow ELSE 0)
            ELSE essence0
    IN [state EXCEPT !.workers_gold = gold,
                     !.workers_essence = essence,
                     !.workers_unassigned =
                         Max2(0, state.total_workers - gold - essence)]

_apply_assign_workers_action(state, action) ==
    LET payload == action.payload
        explicit_gold ==
            PayloadGet(payload, "gold_workers", PayloadGet(payload, "gold", None))
        explicit_essence ==
            PayloadGet(payload, "essence_workers", PayloadGet(payload, "essence", None))
        resource ==
            LowerStrip(PayloadGet(payload, "resource", Some(action.target_id))[1])
        delta ==
            PayloadGet(payload, "count",
                       Some(IF action.value # 0 THEN PyInt(action.value) ELSE 0))[1]
        moved == Min2(state.workers_unassigned, delta)
        amount ==
            Min2(IF resource = "gold" THEN state.workers_gold
                 ELSE state.workers_essence, Abs(delta))
    IN IF explicit_gold # None \/ explicit_essence # None
       THEN _apply_worker_distribution(
                state,
                IF explicit_gold = None THEN state.workers_gold ELSE explicit_gold[1],
                IF explicit_essence = None THEN state.workers_essence
                ELSE explicit_essence[1])
       ELSE IF resource \notin {"gold", "essence"} \/ delta = 0
       THEN state
       ELSE IF delta > 0
       THEN [state EXCEPT
                !.workers_gold = IF resource = "gold" THEN @ + moved ELSE @,
                !.workers_essence = IF resource = "gold" THEN @ ELSE @ + moved,
                !.workers_unassigned = @ - moved]
       ELSE [state EXCEPT
                !.workers_gold = IF resource = "gold" THEN @ - amount ELSE @,
                !.workers_essence = IF resource = "gold" THEN @ ELSE @ - amount,
                !.workers_unassigned = @ + amount]

_apply_economy_policy_action(state, action, economy) ==
    LET requested_policy ==
            PayloadGet(action.payload, "policy_id",
                       PayloadGet(action.payload, "policy", Some(action.target_id)))[1]
    IN IF requested_policy # "" /\ requested_policy \in economy.policies
       THEN [state EXCEPT !.policy_id = requested_policy]
       ELSE state

_build_action_count(action) ==
    Max2(0, PayloadGet(action.payload, "count",
                       Some(Max2(1, IF action.value # 0 THEN PyInt(action.value)
                                    ELSE 1)))[1])

\* An inflation multiplier that forgets the towers already bought.
InflationIgnoringBuildCount(economy, build_count) == Scale

\* The inflation multiplier of a build action, in 1/Scale units:
\* min(max(1.0, max_multiplier), 1.0 + max(0.0, rate) * build_count).
InflationMultiplier(economy, build_count) ==
    Min2(Max2(Scale, economy.build_cost_inflation_max_multiplier),
         Scale + Max2(0, economy.build_cost_inflation_rate) * build_count)

\* The economy evaluation in progress: the scenario's economy, the runtime
\* state, the running build_actions_total, the last build action costed
\* (with the build_count it saw and its multiplier) and, once the waves are
\* exhausted, the reported totals.  last_action is the branch the last pass
\* of the loop took.
NoBuild == [count |-> 0, build_count |-> 0, inflation_multiplier |-> Scale]

NoTotals == [reported |-> FALSE]

EconomyEvaluation(economy) ==
    [op |-> "economy", economy |-> economy,
     state |-> _initial_economy_state(economy),
     build_actions_total |-> 0,
     last_action |-> "", last_build |-> NoBuild, totals |-> NoTotals]

\* _to_int(value) then max(0, .) on the integers the engine passes.
normalize_economy_totals(source) ==
    LET total0 == Max2(0, source.workers.total)
        gold == Max2(0, source.workers.gold)
        essence == Max2(0, source.workers.essence)
        unassigned0 == Max2(0, source.workers.unassigned)
        total == IF total0 <= 0 THEN gold + essence + unassigned0 ELSE total0
        unassigned ==
            IF gold + essence + unassigned0 > total
            THEN Max2(0, total - gold - essence) ELSE unassigned0
    IN [reported |-> TRUE,
        build_actions |-> Max2(0, source.build_actions),
        policy_id |-> source.policy_id,
        workers |-> [total |-> total, gold |-> gold, essence |-> essence,
                     unassigned |-> unassigned]]

\* One pass of the per-action loop body of _evaluate_economy_totals.
EconomyLoopBody(ev, action) ==
    LET action_type == LowerStrip(action.type)
        count == _build_action_count(action)
    IN IF action_type = "assign_workers"
       THEN [ev EXCEPT !.state = _apply_assign_workers_action(ev.state, action),
                       !.last_action = action_type]
       ELSE IF action_type = "economy_policy"
       THEN [ev EXCEPT !.state =
                           _apply_economy_policy_action(ev.state, action, ev.economy),
                       !.last_action = action_type]
       ELSE IF action_type # "build" \/ count <= 0
       THEN [ev EXCEPT !.last_action = "skipped"]
       ELSE [ev EXCEPT
                !.last_build =
                    [count |-> count, build_count |-> ev.state.build_count,
                     inflation_multiplier |->
                         InflationMultiplier(ev.economy, ev.state.build_count)],
                !.build_actions_total = @ + count,
                !.state.build_count = @ + count,
                !.last_action = action_type]

\* The return statement of _evaluate_economy_totals.
EconomyTotals(ev) ==
    normalize_economy_totals(
        [build_actions |-> ev.build_actions_total,
         policy_id |-> ev.state.policy_id,
         workers |-> [total |-> ev.state.total_workers,
                      gold |-> ev.state.workers_gold,
                      essence |-> ev.state.workers_essence,
                      unassigned |-> ev.state.workers_unassigned]])

\* Sampled scenarios: worker counts below zero and above the total, rates
\* below zero, caps below 1.0.
WorkerCounts == {-1, 1, MaxWorkers + 1}

EconomyDefinitions ==
    {EconomyDefinition(w, g, e, 1, 2 * Scale) :
        w \in {-1, 0, MaxWorkers}, g \in WorkerCounts, e \in WorkerCounts}
    \cup {EconomyDefinition(MaxWorkers, 1, 1, rate, cap) :
        rate \in {-1, 0, 1}, cap \in {1, Scale, 2 * Scale}}

\* Sampled assign_workers actions: explicit targets under either key, one
\* or both given; resource + count deltas in the payload or in target_id and
\* value.
WorkerTargets == {-1, 0, 2, MaxWorkers + 2}

DictOf1(key, value) == [k \in {key} |-> value]

DictOf2(key1, value1, key2, value2) ==
    [k \in {key1, key2} |-> IF k = key1 THEN value1 ELSE value2]

AssignWorkersActions ==
    {BuildAction(1, 0, "assign_workers", "", 0, DictOf2(kg, g, ke, e)) :
        kg \in {"gold_workers"}, ke \in {"essence_workers", "essence"},
        g \in WorkerTargets, e \in WorkerTargets}
    \cup {BuildAction(1, 0, "assign_workers", "", 0, DictOf1(k, v)) :
        k \in {"gold", "essence_workers"}, v \in WorkerTargets}
    \cup {BuildAction(1, 0, "assign_workers", "", 0, DictOf2("resource", r, "count", c)) :
        r \in {"Gold ", "essence", "wood"}, c \in {-(MaxWorkers + 2), -1, 0, 1, MaxWorkers + 2}}
    \cup {BuildAction(1, 0, "assign_workers", r, v, EmptyPayload) :
        r \in {"gold", "ESSENCE"}, v \in {-3, 0, 3, 2 * Scale}}

BuildActions ==
    {BuildAction(1, 0, " Build", "arrow_tower", 0, DictOf1("count", c)) :
        c \in {-1, 0, 1, 2}}
    \cup {BuildAction(1, 0, "build", "arrow_tower", v, EmptyPayload) :
        v \in {-Scale, 0, 2 * Scale + 1}}

OtherActions ==
    {BuildAction(1, 0, "economy_policy", p, 0, EmptyPayload) :
        p \in {"greedy", "balanced", "unknown", ""}}
    \cup {BuildAction(1, 0, "economy_policy", "", 0, DictOf1("policy", "greedy")),
          BuildAction(1, 0, "upgrade", "arrow_tower", Scale, EmptyPayload)}

EconomyInit ==
    /\ bridge = NewBridge
    /\ threads = NoThreads
    /\ scanner = NoScanner
    /\ replay_store = [id \in {} |-> <<>>]
    /\ last_call = Call("init", "", NoSnapshot, "", "")
    /\ candidate_payload = NoCalibration
    /\ \E economy \in EconomyDefinitions : engine = EconomyEvaluation(economy)

\* The loop body may run while the evaluation has not returned; a build
\* action is sampled only while the purchase cap allows it.
EconomyRunning ==
    /\ engine.op = "economy"
    /\ ~engine.totals.reported

WithinBuildCap(action) ==
    LowerStrip(action.type) = "build" =>
        engine.state.build_count + _build_action_count(action) <= MaxBuildCount

AssignWorkers ==
    /\ EconomyRunning
    /\ \E action \in AssignWorkersActions :
          engine' = EconomyLoopBody(engine, action)
    /\ UNCHANGED <<bridge, replay_store, last_call, candidate_payload, scanner, threads>>

BuildTowers ==
    /\ EconomyRunning
    /\ \E action \in BuildActions :
          /\ WithinBuildCap(action)
          /\ engine' = EconomyLoopBody(engine, action)
    /\ UNCHANGED <<bridge, replay_store, last_call, candidate_payload, scanner, threads>>

OtherEconomyAction ==
    /\ EconomyRunning
    /\ \E action \in OtherActions :
          engine' = EconomyLoopBody(engine, action)
    /\ UNCHANGED <<bridge, replay_store, last_call, candidate_payload, scanner, threads>>

ReportEconomyTotals ==
    /\ EconomyRunning
    /\ engine' = [engine EXCEPT !.totals = EconomyTotals(engine),
                                !.last_action = "report"]
    /\ UNCHANGED <<bridge, replay_store, last_call, candidate_payload, scanner, threads>>

EconomyNext ==
    AssignWorkers \/ BuildTowers \/ OtherEconomyAction \/ ReportEconomyTotals

SpecEconomy == EconomyInit /\ [][EconomyNext]_vars

(* ------------------------------ C12, C13 ------------------------------ *)

\* C12: after any sequence of assign_workers actions (explicit targets or
\* resource + count deltas, negative or larger than the total) the worker
\* counts are non-negative, add up to total_workers, and total_workers is
\* still the scenario's initial total.
C12_WorkersConserved ==
    engine.op = "economy" =>
        /\ engine.state.workers_gold + engine.state.workers_essence
               + engine.state.workers_unassigned = engine.state.total_workers
        /\ engine.state.workers_gold >= 0
        /\ engine.state.workers_essence >= 0
        /\ engine.state.workers_unassigned >= 0
        /\ engine.state.total_workers = Max2(0, engine.economy.initial_workers)

\* An assign_workers action has moved every worker of a scenario that
\* started with one gold worker onto gold.
C12_Witness ==
    /\ engine.op = "economy"
    /\ engine.last_action = "assign_workers"
    /\ engine.economy.initial_workers_gold = 1
    /\ engine.state.total_workers = MaxWorkers
    /\ engine.state.workers_gold = MaxWorkers

MaxPlanActions == 3
\* Last wave of the sampled scenarios; their waves are 1 .. MaxWave.
MaxWave == 2

DefaultFocus == <<"progress", "lowest_hp">>

RuntimeTower(tower_id, level, focus_priorities, focus_until_death) ==
    [tower_id |-> tower_id, level |-> level,
     focus_priorities |-> focus_priorities,
     focus_until_death |-> focus_until_death]

RuntimeState(towers, active_modifier_ids) ==
    [towers |-> towers, active_modifier_ids |-> active_modifier_ids]

TowerPlan(tower_id, count, level) ==
    [tower_id |-> tower_id, count |-> count, level |-> level,
     focus_priorities |-> DefaultFocus, focus_until_death |-> FALSE]

\* n copies of one tower, appended to a tower list.
AppendCopies(towers, tower, n) ==
    towers \o [i \in 1..Max2(0, n) |-> tower]

RECURSIVE InitialTowers(_, _)
InitialTowers(plans, i) ==
    IF i = 0 THEN <<>>
    ELSE AppendCopies(InitialTowers(plans, i - 1),
                      RuntimeTower(plans[i].tower_id, Max2(0, plans[i].level),
                                   plans[i].focus_priorities,
                                   plans[i].focus_until_death),
                      plans[i].count)

_initial_runtime_state(build) ==
    RuntimeState(InitialTowers(build.towers, Len(build.towers)),
                 build.active_global_modifiers)

\* Index of the first tower with that id; 0 when there is none.
FirstTower(towers, target_id) ==
    IF \E i \in 1..Len(towers) : towers[i].tower_id = target_id
    THEN CHOOSE i \in 1..Len(towers) :
             /\ towers[i].tower_id = target_id
             /\ \A j \in 1..(i - 1) : towers[j].tower_id # target_id
    ELSE 0

RemoveAt(s, idx) == SubSeq(s, 1, idx - 1) \o SubSeq(s, idx + 1, Len(s))

_apply_action_to_state(state, action) ==
    LET action_type == LowerStrip(action.type)
        payload == action.payload
        first == FirstTower(state.towers, action.target_id)
        tower_id == PayloadGet(payload, "tower_id", Some(action.target_id))[1]
        count ==
            PayloadGet(payload, "count",
                       Some(Max2(1, IF action.value # 0 THEN PyInt(action.value)
                                    ELSE 1)))[1]
        level == PayloadGet(payload, "level", Some(0))[1]
        delta ==
            PayloadGet(payload, "levels",
                       Some(IF action.value # 0 THEN PyInt(action.value) ELSE 1))[1]
        modifier_id == PayloadGet(payload, "modifier_id", Some(action.target_id))[1]
        enable == PayloadGet(payload, "enabled", Some(action.value >= 0))[1]
        active == {state.active_modifier_ids[i] :
                      i \in 1..Len(state.active_modifier_ids)}
        new_priorities == PayloadGet(payload, "focus_priorities", Some(DefaultFocus))[1]
        sticky == PayloadGet(payload, "focus_until_death", Some(FALSE))[1]
    IN CASE action_type = "build" ->
              IF tower_id = "" THEN state
              ELSE [state EXCEPT !.towers =
                       AppendCopies(@, RuntimeTower(tower_id, Max2(0, level),
                                                    new_priorities, sticky),
                                    count)]
         [] action_type = "sell" ->
              IF first = 0 THEN state
              ELSE [state EXCEPT !.towers = RemoveAt(@, first)]
         [] action_type = "upgrade" ->
              IF first = 0 THEN state
              ELSE [state EXCEPT !.towers[first].level = Max2(0, @ + delta)]
         [] action_type = "modifier" ->
              IF modifier_id = "" THEN state
              ELSE IF enable /\ modifier_id \notin active
              THEN [state EXCEPT !.active_modifier_ids = Append(@, modifier_id)]
              ELSE IF ~enable /\ modifier_id \in active
              THEN [state EXCEPT !.active_modifier_ids =
                       SelectSeq(@, LAMBDA m : m # modifier_id)]
              ELSE state
         [] action_type = "targeting" ->
              [state EXCEPT !.towers =
                  [i \in 1..Len(@) |->
                      IF @[i].tower_id = action.target_id
                      THEN [@[i] EXCEPT !.focus_priorities = new_priorities,
                                        !.focus_until_death = sticky]
                      ELSE @[i]]]
         [] OTHER -> state

\* The key BuildPlan.from_dict sorts by: (action.wave, action.at_s).
KeyLessEq(a, b) ==
    a.wave < b.wave \/ (a.wave = b.wave /\ a.at_s <= b.at_s)

\* sorted() is stable: an item goes after every item whose key is not larger.
InsertSorted(sorted, item) ==
    LET before == Cardinality({i \in 1..Len(sorted) : KeyLessEq(sorted[i], item)})
    IN SubSeq(sorted, 1, before) \o <<item>> \o SubSeq(sorted, before + 1, Len(sorted))

RECURSIVE SortedPrefix(_, _)
SortedPrefix(items, n) ==
    IF n = 0 THEN <<>> ELSE InsertSorted(SortedPrefix(items, n - 1), items[n])

\* An ingest that keeps the payload order.
ActionsInPayloadOrder(items) == items

\* sorted(actions, key=lambda action: (action.wave, action.at_s)).
SortedActions(items) == SortedPrefix(items, Len(items))

\* BuildPlan.from_dict on a payload with the given towers and actions.
BuildPlan_from_dict(payload) ==
    [scenario_id |-> payload.scenario_id,
     towers |-> payload.towers,
     active_global_modifiers |-> payload.active_global_modifiers,
     actions |-> SortedActions(payload.actions)]

\* The loop of _runtime_for_wave from action i on: it stops at the first
\* action of a later wave.
RECURSIVE RuntimeLoop(_, _, _, _)
RuntimeLoop(state, actions, i, wave_index) ==
    IF i > Len(actions) \/ actions[i].wave > wave_index THEN state
    ELSE RuntimeLoop(_apply_action_to_state(state, actions[i]), actions, i + 1,
                     wave_index)

_runtime_for_wave(build, wave_index) ==
    RuntimeLoop(_initial_runtime_state(build), build.actions, 1, wave_index)

\* Sampled actions: order-sensitive mixes of build, sell, upgrade, modifier
\* and targeting on one tower id, on waves before, inside and after the
\* scenario, with equal and unequal at_s.
PlanActionPool ==
    {BuildAction(2, 0, "build", "arrow_tower", 0, EmptyPayload),
     BuildAction(1, Scale, " Build", "", 0,
                 DictOf2("tower_id", "arrow_tower", "count", 2)),
     BuildAction(1, 0, "sell", "arrow_tower", 0, EmptyPayload),
     BuildAction(2, 1, "sell", "arrow_tower", 0, EmptyPayload),
     BuildAction(1, 0, "upgrade", "arrow_tower", 2 * Scale, EmptyPayload),
     BuildAction(0, 3, "upgrade", "arrow_tower", -Scale, EmptyPayload),
     BuildAction(2, 1, "modifier", "war_drums", 0, EmptyPayload),
     BuildAction(MaxWave + 1, 0, "modifier", "war_drums", -Scale, EmptyPayload),
     BuildAction(1, 0, "targeting", "arrow_tower", 0,
                 DictOf2("focus_priorities", <<"highest_hp">>,
                         "focus_until_death", TRUE))}

RECURSIVE SeqsUpTo(_, _)
SeqsUpTo(S, n) ==
    IF n = 0 THEN {<<>>}
    ELSE SeqsUpTo(S, n - 1)
         \cup {Append(s, x) : s \in {t \in SeqsUpTo(S, n - 1) : Len(t) = n - 1},
                              x \in S}

BuildPlanPayloads ==
    {[scenario_id |-> "s1", towers |-> towers,
      active_global_modifiers |-> <<>>, actions |-> actions] :
        towers \in {<<TowerPlan("arrow_tower", 1, 0)>>,
                    <<TowerPlan("arrow_tower", -1, 1)>>},
        actions \in SeqsUpTo(PlanActionPool, MaxPlanActions)}

\* evaluate_timeline's walk over the waves: the payload ingested, the plan
\* it became, the wave under simulation and the runtime state built for it.
RuntimeInit ==
    /\ bridge = NewBridge
    /\ threads = NoThreads
    /\ scanner = NoScanner
    /\ replay_store = [id \in {} |-> <<>>]
    /\ last_call = Call("init", "", NoSnapshot, "", "")
    /\ candidate_payload = NoCalibration
    /\ \E payload \in BuildPlanPayloads :
          engine = [op |-> "runtime", payload |-> payload,
                    build |-> BuildPlan_from_dict(payload),
                    wave_index |-> 0,
                    runtime |-> RuntimeState(<<>>, <<>>)]

RuntimeForNextWave ==
    /\ engine.op = "runtime"
    /\ engine.wave_index < MaxWave
    /\ engine' = [engine EXCEPT
                     !.wave_index = @ + 1,
                     !.runtime = _runtime_for_wave(engine.build, engine.wave_index + 1)]
    /\ UNCHANGED <<bridge, replay_store, last_call, candidate_payload, scanner, threads>>

SpecRuntime == RuntimeInit /\ [][RuntimeForNextWave]_vars

(* -------------------------------- C16 --------------------------------- *)

\* The place of payload action i in ascending (wave, at_s) order, input
\* order kept among equal keys.
RankOf(items, i) ==
    1 + Cardinality({j \in 1..Len(items) :
                        \/ items[j].wave < items[i].wave
                        \/ items[j].wave = items[i].wave /\ items[j].at_s < items[i].at_s
                        \/ /\ items[j].wave = items[i].wave
                           /\ items[j].at_s = items[i].at_s
                           /\ j < i})

InSpecifiedOrder(items) ==
    [p \in 1..Len(items) |->
        items[CHOOSE i \in 1..Len(items) : RankOf(items, i) = p]]

RECURSIVE FoldActions(_, _, _)
FoldActions(state, actions, n) ==
    IF n = 0 THEN state
    ELSE _apply_action_to_state(FoldActions(state, actions, n - 1), actions[n])

FoldAll(state, actions) == FoldActions(state, actions, Len(actions))

InitialStateOfPayload ==
    _initial_runtime_state([towers |-> engine.payload.towers,
                            active_global_modifiers |->
                                engine.payload.active_global_modifiers])

\* C16: the runtime state built for wave W is the fold, over the initial
\* tower plan, of exactly the payload's actions with wave <= W in ascending
\* (wave, at_s) order with input order kept among equal keys; building it
\* leaves the plan as it was, and the state for wave W+1 is the state for
\* wave W with the actions of wave W+1 applied in that order.
C16_RuntimeIsFoldOfSortedActions ==
    [][engine.op = "runtime" /\ engine'.wave_index = engine.wave_index + 1 =>
          /\ engine'.build = engine.build
          /\ engine'.runtime =
                 FoldAll(InitialStateOfPayload,
                         SelectSeq(InSpecifiedOrder(engine.payload.actions),
                                   LAMBDA a : a.wave <= engine'.wave_index))
          /\ engine.wave_index >= 1 =>
                 engine'.runtime =
                     FoldAll(engine.runtime,
                             SelectSeq(InSpecifiedOrder(engine.payload.actions),
                                       LAMBDA a : a.wave = engine'.wave_index))]_vars

\* A payload given out of order (a wave-2 build before a wave-1 sell) was
\* ingested and the state for wave 2 holds the tower built in wave 2.
C16_Witness ==
    /\ engine.op = "runtime"
    /\ engine.wave_index = 2
    /\ Len(engine.payload.actions) >= 2
    /\ engine.payload.actions[1].wave = 2
    /\ engine.payload.actions[1].type = "build"
    /\ engine.payload.actions[2].wave = 1
    /\ engine.payload.actions[2].type = "sell"
    /\ Len(engine.runtime.towers) = 1
    /\ engine.payload.towers[1].count = 1

(* ---------------------- engine: the expected wave --------------------- *)

\* EPS, the engine's guard against division by zero: the smallest positive
\* fixed-point number stands for it.
EPS == 1

\* Products and quotients of fixed-point numbers.  The sampled stats make
\* every product exact; a quotient is cut to the resolution.
Mul(a, b) == (a * b) \div Scale

Div(a, b) == (a * Scale) \div b

TowerStats(damage, fire_rate, crit_chance, crit_multiplier, accuracy,
           penetration, barrier_damage_multiplier) ==
    [damage |-> damage, fire_rate |-> fire_rate, crit_chance |-> crit_chance,
     crit_multiplier |-> crit_multiplier, accuracy |-> accuracy,
     penetration |-> penetration,
     barrier_damage_multiplier |-> barrier_damage_multiplier]

\* _apply_stat_modifiers with no modifier active: the clamps on the result.
_apply_stat_modifiers(base) ==
    TowerStats(Max2(0, base.damage), Max2(EPS, base.fire_rate),
               _clamp(base.crit_chance, 0, Scale),
               Max2(Scale, base.crit_multiplier),
               _clamp(base.accuracy, 0, Scale),
               _clamp(base.penetration, 0, Scale),
               Max2(1, base.barrier_damage_multiplier))

\* linear_subtract, the default of both rules.
_hit_chance(stats, enemy) ==
    _clamp(Scale - Max2(0, enemy.block - stats.accuracy), 0, Scale)

_armor_damage_factor(enemy, stats) ==
    Max2(0, Scale - _clamp(Max2(0, enemy.armor - stats.penetration), 0, Scale))

_crit_factor_expected(stats) ==
    (Scale - stats.crit_chance) + Mul(stats.crit_chance, stats.crit_multiplier)

\* dot_scaling_policy source_only: damage_per_tick * ticks / duration_s.
_dot_expected_dps(dot) ==
    LET ratio == Div(dot.duration_s, Max2(EPS, dot.tick_interval_s))
        total_ticks == Max2(1, PyInt(ratio))
    IN Div(dot.damage_per_tick * total_ticks, Max2(EPS, dot.duration_s))

RECURSIVE SumSeq(_, _)
SumSeq(s, n) == IF n = 0 THEN 0 ELSE SumSeq(s, n - 1) + s[n]

WaveResult(wave, potential_damage, combat_damage, effective_dps, clear_time_s,
           leaks, enemy_hp_pool) ==
    [wave |-> wave, potential_damage |-> potential_damage,
     combat_damage |-> combat_damage, effective_dps |-> effective_dps,
     clear_time_s |-> clear_time_s, leaks |-> leaks,
     enemy_hp_pool |-> enemy_hp_pool]

\* combat_damage of the expected wave: min(enemy_hp_pool, potential_damage).
ExpectedCombatDamage(enemy_hp_pool, potential_damage) ==
    Min2(enemy_hp_pool, potential_damage)

\* _expected_wave on a scenario with one enemy definition and one tower
\* definition; spawns and runtime towers naming anything else are skipped as
\* the code skips them.
_expected_wave(scenario, wave, runtime) ==
    LET counts == [i \in 1..Len(wave.spawns) |-> wave.spawns[i].count]
        total_enemies == SumSeq(counts, Len(counts))
        enemy == scenario.enemy
        stats == _apply_stat_modifiers(scenario.tower.base_stats)
        direct_per_shot ==
            Mul(Mul(Mul(stats.damage, _crit_factor_expected(stats)),
                    _hit_chance(stats, enemy)),
                _armor_damage_factor(enemy, stats))
        enemy_dps == Mul(direct_per_shot, stats.fire_rate)
        dots == scenario.tower.dot_effects
        dot_dps == SumSeq([i \in 1..Len(dots) |-> _dot_expected_dps(dots[i])],
                          Len(dots))
        weight == Div(total_enemies * Scale, total_enemies * Scale)
        tower_mix_dps == Mul(enemy_dps + dot_dps, weight)
        known == {i \in 1..Len(runtime.towers) :
                     runtime.towers[i].tower_id = scenario.tower.id}
        effective_dps == tower_mix_dps * Cardinality(known)
        enemy_hp_pool == (enemy.hp + enemy.barrier) * total_enemies
        enemy_unit_pool == enemy.hp * total_enemies
        potential_damage == Mul(effective_dps, wave.duration_s)
        clear_time_s == Div(enemy_hp_pool, Max2(EPS, effective_dps))
        leaks == Div(Max2(0, enemy_hp_pool - potential_damage),
                     Max2(EPS, enemy_unit_pool))
    IN IF total_enemies <= 0
       THEN WaveResult(wave.index, 0, 0, 0, 0, 0, 0)
       ELSE WaveResult(wave.index, potential_damage,
                       ExpectedCombatDamage(enemy_hp_pool, potential_damage),
                       effective_dps, Min2(wave.duration_s, clear_time_s),
                       leaks, enemy_hp_pool)

\* Sampled scenarios, as ScenarioDefinition.from_dict takes them: float()
\* and int() check no sign, so durations, hit points, spawn counts and DoT
\* damage below zero are among them.  Sampled towers never crit, always
\* hit, and the sampled enemy has no armor, block or barrier.
SampledDot(damage_per_tick) ==
    [id |-> "burn", damage_per_tick |-> damage_per_tick,
     tick_interval_s |-> Scale, duration_s |-> Scale]

ExpectedScenarios ==
    {[tower |-> [id |-> "arrow_tower",
                 base_stats |-> TowerStats(damage, Scale, 0, Scale, Scale, 0, Scale),
                 dot_effects |-> dots],
      enemy |-> [id |-> "grunt", hp |-> hp, armor |-> 0, block |-> 0, barrier |-> 0],
      wave |-> [index |-> 1, duration_s |-> duration_s,
                spawns |-> <<[enemy_id |-> "grunt", count |-> c1],
                             [enemy_id |-> "grunt", count |-> c2]>>]] :
        damage \in {-Scale, 0, 2 * Scale},
        dots \in {<<>>, <<SampledDot(Scale)>>, <<SampledDot(-3 * Scale)>>},
        hp \in {-Scale, Scale, 3 * Scale},
        duration_s \in {-Scale, 0, Scale, 4 * Scale},
        c1 \in {-1, 0, 2}, c2 \in {0, 1}}

ExpectedRuntimes ==
    {RuntimeState(towers, <<>>) :
        towers \in {<<>>,
                    <<RuntimeTower("arrow_tower", 0, DefaultFocus, FALSE)>>,
                    <<RuntimeTower("arrow_tower", 0, DefaultFocus, FALSE),
                      RuntimeTower("ghost_tower", 0, DefaultFocus, FALSE),
                      RuntimeTower("arrow_tower", 0, DefaultFocus, FALSE)>>}}

ExpectedInit ==
    /\ bridge = NewBridge
    /\ threads = NoThreads
    /\ scanner = NoScanner
    /\ replay_store = [id \in {} |-> <<>>]
    /\ last_call = Call("init", "", NoSnapshot, "", "")
    /\ candidate_payload = NoCalibration
    /\ \E scenario \in ExpectedScenarios, runtime \in ExpectedRuntimes :
          engine = [op |-> "expected", scenario |-> scenario,
                    runtime |-> runtime, evaluated |-> FALSE,
                    result |-> WaveResult(0, 0, 0, 0, 0, 0, 0)]

\* evaluate_timeline in expected mode, on the scenario's wave.
ExpectedWave ==
    /\ engine.op = "expected"
    /\ ~engine.evaluated
    /\ engine' = [engine EXCEPT
                     !.evaluated = TRUE,
                     !.result = _expected_wave(engine.scenario, engine.scenario.wave,
                                               engine.runtime)]
    /\ UNCHANGED <<bridge, replay_store, last_call, candidate_payload, scanner, threads>>

SpecExpected == ExpectedInit /\ [][ExpectedWave]_vars

(* -------------------------------- C14 --------------------------------- *)

\* C14: every wave evaluated in expected mode has
\* 0 <= combat_damage <= min(potential_damage, enemy_hp_pool) and
\* clear_time_s <= wave_duration_s, whatever scenario was ingested.
C14_ExpectedWaveBounds ==
    engine.op = "expected" /\ engine.evaluated =>
        /\ 0 <= engine.result.combat_damage
        /\ engine.result.combat_damage
               <= Min2(engine.result.potential_damage, engine.result.enemy_hp_pool)
        /\ engine.result.clear_time_s <= engine.scenario.wave.duration_s

(* --------------------- engine: the combat simulation ------------------ *)

\* random.Random(seed).random(), the k-th draw (k = 0, 1, ...): a number in
\* [0, 1), here one of 0, 1/Scale, ..., (Scale-1)/Scale, fixed by the seed
\* and the position in the stream.
Rand(seed, k) == (((seed % 7) * 3) + (k * 5) + ((k * k) % 3)) % Scale

_EnemyInstance(uid, definition, spawn_time) ==
    [uid |-> uid, definition |-> definition, spawn_time |-> spawn_time,
     hp |-> definition.hp, barrier |-> definition.barrier,
     dots |-> {}, alive |-> TRUE]

_TowerInstance(uid, definition, stats, focus_priorities, focus_until_death) ==
    [uid |-> uid, definition |-> definition, stats |-> stats,
     focus_priorities |-> focus_priorities,
     focus_until_death |-> focus_until_death,
     sticky_target_uid |-> 0]

_target_score(enemy, now, priority) ==
    LET progress == Mul(Max2(0, now - enemy.spawn_time),
                        Max2(0, enemy.definition.speed))
        hp_total == enemy.hp + enemy.barrier
    IN CASE priority = "lowest_hp" -> -hp_total
         [] priority = "highest_hp" -> hp_total
         [] priority = "fastest" -> enemy.definition.speed
         [] priority = "barrier" -> enemy.barrier
         [] priority \in {"boss_elite", "healer", "summoner", "spawner"} -> 0
         [] OTHER -> progress

\* Tuple comparison of the scores of two enemies under the priorities.
RECURSIVE ScoreGreater(_, _, _, _, _)
ScoreGreater(a, b, now, priorities, i) ==
    IF i > Len(priorities) THEN FALSE
    ELSE LET sa == _target_score(a, now, priorities[i])
             sb == _target_score(b, now, priorities[i])
         IN IF sa # sb THEN sa > sb
            ELSE ScoreGreater(a, b, now, priorities, i + 1)

\* The selection by the focus priorities alone: the first, in list order, of
\* the alive and spawned enemies with the greatest score tuple.
PickByPriorities(now, tower, enemies) ==
    LET alive == {i \in 1..Len(enemies) :
                     enemies[i].alive /\ now >= enemies[i].spawn_time}
        priorities == IF tower.focus_priorities = <<>> THEN <<"progress">>
                      ELSE tower.focus_priorities
        best == {i \in alive :
                    \A j \in alive :
                        ~ScoreGreater(enemies[j], enemies[i], now, priorities, 1)}
    IN IF alive = {} THEN 0
       ELSE CHOOSE i \in best : \A j \in best : i <= j

\* _pick_target: the index of the chosen enemy (0 for None).  The sort is
\* stable and reversed, so among equal scores the first in the list wins.
_pick_target(now, tower, enemies) ==
    LET alive == {i \in 1..Len(enemies) :
                     enemies[i].alive /\ now >= enemies[i].spawn_time}
        priorities == IF tower.focus_priorities = <<>> THEN <<"progress">>
                      ELSE tower.focus_priorities
        best == {i \in alive :
                    \A j \in alive :
                        ~ScoreGreater(enemies[j], enemies[i], now, priorities, 1)}
        sticky == {i \in alive : enemies[i].uid = tower.sticky_target_uid}
    IN IF alive = {} THEN 0
       ELSE IF tower.focus_until_death /\ tower.sticky_target_uid # 0
               /\ sticky # {}
       THEN CHOOSE i \in sticky : TRUE
       ELSE CHOOSE i \in best : \A j \in best : i <= j

\* _apply_direct_damage with sampled = True under the default rules: the
\* enemy after the shot, the damage dealt and the number of draws consumed.
_apply_direct_damage(enemy, tower, seed, draws) ==
    LET stats == tower.stats
        hit == _hit_chance(stats, enemy.definition)
        missed == Rand(seed, draws) > hit
        critical == IF Rand(seed, draws + 1) < stats.crit_chance
                    THEN stats.crit_multiplier ELSE Scale
        direct == Mul(stats.damage, critical)
        armor_factor == _armor_damage_factor(enemy.definition, stats)
        barrier_damage == Mul(direct, stats.barrier_damage_multiplier)
        absorbed == Min2(enemy.barrier, barrier_damage)
        overflow == Max2(0, barrier_damage - absorbed)
        through == IF overflow > EPS
                   THEN Min2(enemy.hp, Mul(overflow, armor_factor)) ELSE 0
        dealt == Min2(enemy.hp, Mul(direct, armor_factor))
        hp == IF enemy.barrier > EPS THEN enemy.hp - through ELSE enemy.hp - dealt
        barrier == IF enemy.barrier > EPS THEN enemy.barrier - absorbed
                   ELSE enemy.barrier
        total_damage == IF enemy.barrier > EPS THEN absorbed + through ELSE dealt
    IN IF ~enemy.alive THEN [enemy |-> enemy, dealt |-> 0, draws |-> draws]
       ELSE IF missed THEN [enemy |-> enemy, dealt |-> 0, draws |-> draws + 1]
       ELSE [enemy |-> [enemy EXCEPT !.hp = hp, !.barrier = barrier,
                                     !.alive = ~(hp <= EPS /\ barrier <= EPS)],
             dealt |-> total_damage, draws |-> draws + 2]

\* A regeneration that also reaches the enemies marked dead.
RegenOfTheDead(enemies, delta_s) ==
    IF delta_s <= 0 THEN enemies
    ELSE [i \in 1..Len(enemies) |->
             IF enemies[i].definition.regen_per_s <= EPS
             THEN enemies[i]
             ELSE [enemies[i] EXCEPT !.hp =
                      Min2(@ + Mul(enemies[i].definition.regen_per_s, delta_s),
                           enemies[i].definition.hp)]]

_apply_regen(enemies, delta_s) ==
    IF delta_s <= 0 THEN enemies
    ELSE [i \in 1..Len(enemies) |->
             IF ~enemies[i].alive \/ enemies[i].definition.regen_per_s <= EPS
             THEN enemies[i]
             ELSE [enemies[i] EXCEPT !.hp =
                      Min2(@ + Mul(enemies[i].definition.regen_per_s, delta_s),
                           enemies[i].definition.hp)]]

\* The enemies of a wave, in spawn order: range(spawn.count) instances per
\* spawn, at at_s + interval_s * index.
RECURSIVE SpawnedEnemies(_, _, _)
SpawnedEnemies(scenario, spawns, n) ==
    IF n = 0 THEN <<>>
    ELSE LET before == SpawnedEnemies(scenario, spawns, n - 1)
             spawn == spawns[n]
         IN IF spawn.enemy_id # scenario.enemy.id THEN before
            ELSE before \o
                 [k \in 1..Max2(0, spawn.count) |->
                     _EnemyInstance(Len(before) + k, scenario.enemy,
                                    spawn.at_s + spawn.interval_s * (k - 1))]

\* The tower instances: runtime towers without a definition are skipped and
\* the uid is the position in the runtime list.
TowerInstances(scenario, runtime) ==
    LET known == SelectSeq([i \in 1..Len(runtime.towers) |-> i],
                           LAMBDA i : runtime.towers[i].tower_id = scenario.tower.id)
    IN [k \in 1..Len(known) |->
           _TowerInstance(known[k], scenario.tower,
                          _apply_stat_modifiers(scenario.tower.base_stats),
                          runtime.towers[known[k]].focus_priorities,
                          runtime.towers[known[k]].focus_until_death)]

Event(at_s, serial, type, tower_uid, enemy_uid, dot_uid) ==
    [at_s |-> at_s, serial |-> serial, type |-> type, tower_uid |-> tower_uid,
     enemy_uid |-> enemy_uid, dot_uid |-> dot_uid]

\* A heap that serves, among the events of the least time, the one
\* scheduled last.
HeapTopLatestFirst(events) ==
    CHOOSE e \in events :
        \A f \in events :
            e.at_s < f.at_s \/ (e.at_s = f.at_s /\ e.serial >= f.serial)

\* heapq.heappop: the event with the least (at_s, serial).
HeapTop(events) ==
    CHOOSE e \in events :
        \A f \in events :
            e.at_s < f.at_s \/ (e.at_s = f.at_s /\ e.serial <= f.serial)

\* The simulation before its first event: one tower_attack at 0 per tower.
\* hash_exact tells whether int(float(hash(dot.id))) == hash(dot.id) in the
\* interpreter that runs the simulation.
CombatStart(scenario, wave, runtime, seed, hash_exact) ==
    LET towers == TowerInstances(scenario, runtime)
        enemies == SpawnedEnemies(scenario, wave.spawns, Len(wave.spawns))
    IN [towers |-> towers, enemies |-> enemies,
        enemy_hp_pool |->
            SumSeq([i \in 1..Len(enemies) |->
                       enemies[i].definition.hp + enemies[i].definition.barrier],
                   Len(enemies)),
        events |-> {Event(0, k - 1, "tower_attack", towers[k].uid, 0, 0) :
                       k \in 1..Len(towers)},
        serial |-> Len(towers), now |-> 0, total_damage |-> 0,
        clear_time |-> wave.duration_s, seed |-> seed, draws |-> 0,
        hash_exact |-> hash_exact, duration_s |-> wave.duration_s,
        wave |-> wave.index, running |-> TRUE]

IndexOfUid(items, uid) ==
    IF \E i \in 1..Len(items) : items[i].uid = uid
    THEN CHOOSE i \in 1..Len(items) : items[i].uid = uid
    ELSE 0

DotOf(enemy, dot_uid) == {d \in enemy.dots : d.dot_uid = dot_uid}

\* The per-effect stack cap of the DoT loop: the count of the target's DoT
\* states whose stored float(hash(id)) converts back to hash(id).
ActiveCount(enemy, dot, hash_exact) ==
    IF hash_exact
    THEN Cardinality({d \in enemy.dots : d.effect_id = dot.id})
    ELSE 0

\* The DoT loop of a tower attack, from effect i on.
RECURSIVE RegisterDots(_, _, _, _)
RegisterDots(sim, target, dots, i) ==
    IF i > Len(dots) THEN sim
    ELSE LET dot == dots[i]
             enemy == sim.enemies[target]
             dot_uid == sim.serial + 100000
             tick_interval == Max2(EPS, dot.tick_interval_s)
         IN IF ActiveCount(enemy, dot, sim.hash_exact) >= Max2(1, dot.max_stacks)
            THEN RegisterDots(sim, target, dots, i + 1)
            ELSE RegisterDots(
                     [sim EXCEPT
                         !.enemies[target].dots =
                             @ \cup {[dot_uid |-> dot_uid, effect_id |-> dot.id,
                                      damage |-> dot.damage_per_tick,
                                      tick_interval |-> tick_interval,
                                      end |-> sim.now + dot.duration_s]},
                         !.events = @ \cup {Event(sim.now + tick_interval, sim.serial,
                                                  "dot_tick", 0, enemy.uid, dot_uid)},
                         !.serial = @ + 1],
                     target, dots, i + 1)

\* The tower_attack branch of the event loop.
TowerAttack(sim, e) ==
    LET k == IndexOfUid(sim.towers, e.tower_uid)
        tower == sim.towers[k]
        target == _pick_target(sim.now, tower, sim.enemies)
        shot == _apply_direct_damage(sim.enemies[target], tower, sim.seed, sim.draws)
        picked == IF target = 0 THEN sim
                  ELSE [sim EXCEPT
                           !.towers[k].sticky_target_uid =
                               IF tower.focus_until_death
                               THEN sim.enemies[target].uid ELSE @,
                           !.enemies[target] = shot.enemy,
                           !.total_damage = @ + shot.dealt,
                           !.draws = shot.draws]
        after == IF target = 0 THEN sim
                 ELSE RegisterDots(picked, target, tower.definition.dot_effects, 1)
    IN [after EXCEPT
           !.events = @ \cup {Event(sim.now + Div(Scale, Max2(EPS, tower.stats.fire_rate)),
                                    after.serial, "tower_attack", tower.uid, 0, 0)},
           !.serial = @ + 1]

\* The check that ends a wave early, placed after the dot_tick branch.
WaveCleared(sim) ==
    /\ \A i \in 1..Len(sim.enemies) :
          ~sim.enemies[i].alive \/ sim.now < sim.enemies[i].spawn_time
    /\ ~\E i \in 1..Len(sim.enemies) :
          /\ sim.now < sim.enemies[i].spawn_time
          /\ sim.enemies[i].spawn_time <= sim.duration_s

\* The dot_tick branch of the event loop, with the check that follows it.
DotTick(sim, e) ==
    LET i == IndexOfUid(sim.enemies, e.enemy_uid)
        enemy == sim.enemies[i]
        found == DotOf(enemy, e.dot_uid)
        dot_state == CHOOSE d \in found : TRUE
        dealt == Min2(enemy.hp, dot_state.damage)
        hp == enemy.hp - dealt
        next_tick == sim.now + dot_state.tick_interval
        ticked == [sim EXCEPT !.enemies[i].hp = hp, !.total_damage = @ + dealt]
        after ==
            IF next_tick <= dot_state.end + EPS
            THEN [ticked EXCEPT
                     !.events = @ \cup {Event(next_tick, sim.serial, "dot_tick", 0,
                                              enemy.uid, e.dot_uid)},
                     !.serial = @ + 1]
            ELSE [ticked EXCEPT !.enemies[i].dots = @ \ found]
    IN IF i = 0 THEN sim
       ELSE IF ~enemy.alive \/ found = {} THEN sim
       ELSE IF sim.now > dot_state.end + EPS
       THEN [sim EXCEPT !.enemies[i].dots = @ \ found]
       ELSE IF hp <= EPS /\ enemy.barrier <= EPS
       THEN [ticked EXCEPT !.enemies[i].alive = FALSE, !.enemies[i].dots = {}]
       ELSE IF WaveCleared(after)
       THEN [after EXCEPT !.clear_time = after.now, !.running = FALSE]
       ELSE after

\* One pass of the event loop of _simulate_wave_combat.
CombatStep(sim) ==
    LET e == HeapTop(sim.events)
        popped == [sim EXCEPT !.events = @ \ {e}]
        at == [popped EXCEPT !.enemies = _apply_regen(@, e.at_s - sim.now),
                             !.now = e.at_s]
    IN IF sim.events = {} THEN [sim EXCEPT !.running = FALSE]
       ELSE IF e.at_s > sim.duration_s THEN [popped EXCEPT !.running = FALSE]
       ELSE IF e.type = "tower_attack" THEN TowerAttack(at, e)
       ELSE DotTick(at, e)

\* A count of everything that was not killed, spawned in time or not.
AliveCountOfAll(sim) ==
    Cardinality({i \in 1..Len(sim.enemies) : sim.enemies[i].alive})

\* alive_count at the end of the simulation.
AliveCount(sim) ==
    Cardinality({i \in 1..Len(sim.enemies) :
                    sim.enemies[i].alive
                    /\ sim.enemies[i].spawn_time <= sim.duration_s})

\* The WaveResult built from a finished simulation.
CombatResult(sim) ==
    WaveResult(sim.wave, sim.total_damage,
               Min2(sim.enemy_hp_pool, sim.total_damage),
               Div(sim.total_damage, Max2(EPS, sim.duration_s)),
               Min2(sim.clear_time, sim.duration_s),
               AliveCount(sim) * Scale, sim.enemy_hp_pool)

(* ------------------------ engine: the timeline ------------------------ *)

\* str.lower().strip() on the sampled mode names.
NormalizedMode(mode) ==
    CASE mode = " Combat" -> "combat"
      [] OTHER -> mode

\* The seed of the run_index-th simulation of a wave (run_index = 0, 1, ...).
RunSeed(mode, seed, wave, run_index) ==
    IF mode = "combat" THEN seed + wave.index * 997
    ELSE seed + wave.index * 1009 + run_index * 37

\* The number of simulations evaluate_timeline runs for a wave.
RunsOf(mode, monte_carlo_runs) ==
    CASE mode = "combat" -> 1
      [] mode = "monte_carlo" -> Max2(1, monte_carlo_runs)
      [] OTHER -> 0

\* What evaluate_timeline appends to wave_results for one wave, given the
\* finished simulations of the wave.
EvaluateWave(scenario, build, wave, mode, samples) ==
    LET runtime == _runtime_for_wave(build, wave.index)
        expected == _expected_wave(scenario, wave, runtime)
        runs == Len(samples)
        results == [r \in 1..runs |-> CombatResult(samples[r])]
    IN CASE mode = "expected" -> expected
         [] mode = "combat" ->
              [results[1] EXCEPT !.potential_damage = expected.potential_damage]
         [] OTHER ->
              WaveResult(
                  wave.index, expected.potential_damage,
                  SumSeq([r \in 1..runs |-> results[r].combat_damage], runs) \div runs,
                  SumSeq([r \in 1..runs |-> results[r].effective_dps], runs) \div runs,
                  SumSeq([r \in 1..runs |-> results[r].clear_time_s], runs) \div runs,
                  SumSeq([r \in 1..runs |-> results[r].leaks], runs) \div runs,
                  expected.enemy_hp_pool)

\* The EvaluationResult of a one-wave scenario after to_dict, given the
\* wave's finished simulations.  Rounding to 10 digits keeps fixed-point
\* numbers apart, and the totals are the sums over the waves.
SerializedResult(scenario, build, mode, seed, monte_carlo_runs, samples) ==
    LET wave_result == EvaluateWave(scenario, build, scenario.waves[1], mode, samples)
    IN [mode |-> mode, seed |-> seed,
        monte_carlo_runs |->
            Max2(1, IF mode = "monte_carlo" THEN monte_carlo_runs ELSE 1),
        wave_results |-> <<wave_result>>,
        totals |-> [potential_damage |-> wave_result.potential_damage,
                    combat_damage |-> wave_result.combat_damage,
                    leaks |-> wave_result.leaks]]

\* Sampled scenarios: one tower definition, one enemy definition, one wave
\* of combat_duration seconds.  Stats, hit points and times are whole
\* numbers of units.
CombatDuration == 3 * Scale

BurnDot(max_stacks) ==
    [id |-> "burn", damage_per_tick |-> Scale, tick_interval_s |-> Scale,
     duration_s |-> 2 * Scale, max_stacks |-> max_stacks]

CombatScenario(damage, crit_chance, accuracy, dots, hp, barrier, block, spawns) ==
    [tower |-> [id |-> "arrow_tower",
                base_stats |-> TowerStats(damage, Scale, crit_chance, 2 * Scale,
                                          accuracy, 0, Scale),
                dot_effects |-> dots],
     enemy |-> [id |-> "grunt", hp |-> hp, armor |-> 0, block |-> block,
                barrier |-> barrier, regen_per_s |-> 0, speed |-> Scale],
     waves |-> <<[index |-> 1, duration_s |-> CombatDuration, spawns |-> spawns]>>]

Spawn(at_s, count, interval_s) ==
    [at_s |-> at_s, enemy_id |-> "grunt", count |-> count, interval_s |-> interval_s]

CombatSpawns ==
    {<<Spawn(0, 2, Scale)>>,
     <<Spawn(0, 3, CombatDuration - Scale)>>,
     <<Spawn(Scale, 1, 0), Spawn(0, -1, 0), Spawn(2 * CombatDuration, 1, 0)>>}

CombatScenarios ==
    {CombatScenario(damage, 0, Scale, dots, hp, 0, 0, spawns) :
        damage \in {Scale, 2 * Scale},
        dots \in {<<>>, <<BurnDot(1)>>, <<BurnDot(2)>>},
        hp \in {2 * Scale, 8 * Scale},
        spawns \in CombatSpawns}
    \cup {CombatScenario(Scale, crit_chance, accuracy, <<BurnDot(1)>>, 4 * Scale,
                         barrier, block, <<Spawn(0, 2, Scale)>>) :
        crit_chance \in {0, 1}, accuracy \in {0, Scale},
        barrier \in {0, Scale}, block \in {0, Scale}}
    \cup {[CombatScenario(Scale, 0, Scale, dots, 3 * Scale, barrier, 0,
                          <<Spawn(0, 2, Scale)>>)
              EXCEPT !.enemy.regen_per_s = Scale] :
        dots \in {<<>>, <<BurnDot(1)>>}, barrier \in {0, Scale}}

TimelineBuilds ==
    {BuildPlan_from_dict(
         [scenario_id |-> "s1", towers |-> <<TowerPlan("arrow_tower", 1, 0)>>,
          active_global_modifiers |-> <<>>, actions |-> actions]) :
        actions \in {<<>>,
                     <<BuildAction(1, 0, "targeting", "arrow_tower", 0,
                                   DictOf2("focus_priorities", <<"highest_hp">>,
                                           "focus_until_death", TRUE)),
                       BuildAction(1, 0, "build", "arrow_tower", 0, EmptyPayload)>>}}

NoEvaluation == [raised |-> "", serialized |-> <<>>]

NoSim == [running |-> FALSE]

TimelineCalls ==
    {[mode |-> "expected", monte_carlo_runs |-> 1],
     [mode |-> " Combat", monte_carlo_runs |-> 1],
     [mode |-> "monte_carlo", monte_carlo_runs |-> 0],
     [mode |-> "monte_carlo", monte_carlo_runs |-> 2],
     [mode |-> "fast", monte_carlo_runs |-> 1]}

\* The evaluations of one (scenario, build, seed, mode, monte_carlo_runs):
\* how many have returned, the one in progress (its interpreter, the
\* running simulation and the finished ones of the wave), what the last
\* returned and what the one before it returned.
TimelineInit ==
    /\ bridge = NewBridge
    /\ threads = NoThreads
    /\ scanner = NoScanner
    /\ replay_store = [id \in {} |-> <<>>]
    /\ last_call = Call("init", "", NoSnapshot, "", "")
    /\ candidate_payload = NoCalibration
    /\ \E scenario \in CombatScenarios, build \in TimelineBuilds,
          call \in TimelineCalls, seed \in {0, 1} :
          engine = [op |-> "timeline", scenario |-> scenario, build |-> build,
                    mode |-> call.mode, seed |-> seed,
                    monte_carlo_runs |-> call.monte_carlo_runs,
                    evaluations |-> 0, hash_exact |-> TRUE,
                    simulating |-> FALSE, sim |-> NoSim, samples |-> <<>>,
                    evaluation |-> NoEvaluation, previous |-> NoEvaluation]

\* The simulation evaluate_timeline starts next for the wave.
NextSimulation(e, hash_exact, run_index) ==
    CombatStart(e.scenario, e.scenario.waves[1],
                _runtime_for_wave(e.build, e.scenario.waves[1].index),
                RunSeed(NormalizedMode(e.mode), e.seed, e.scenario.waves[1], run_index),
                hash_exact)

\* evaluate_timeline returns: the result is serialized.
Returned(e, samples) ==
    [e EXCEPT !.evaluations = @ + 1, !.simulating = FALSE, !.sim = NoSim,
              !.samples = samples,
              !.previous = e.evaluation,
              !.evaluation =
                  [raised |-> "",
                   serialized |->
                       SerializedResult(e.scenario, e.build, NormalizedMode(e.mode),
                                        e.seed, e.monte_carlo_runs, samples)]]

\* A call of evaluate_timeline on the inputs, in an interpreter whose
\* string hashes do or do not survive the conversion to float: an
\* unsupported mode raises, expected mode returns, the other modes start
\* the first simulation of the wave.
EvaluateTimeline ==
    /\ engine.op = "timeline"
    /\ engine.evaluations < 2
    /\ ~engine.simulating
    /\ \E hash_exact \in BOOLEAN :
          engine' =
              IF NormalizedMode(engine.mode) \notin {"expected", "combat", "monte_carlo"}
              THEN [engine EXCEPT !.evaluations = @ + 1,
                                  !.hash_exact = hash_exact,
                                  !.previous = engine.evaluation,
                                  !.samples = <<>>,
                                  !.evaluation = [raised |-> "ValueError",
                                                  serialized |-> <<>>]]
              ELSE IF NormalizedMode(engine.mode) = "expected"
              THEN Returned([engine EXCEPT !.hash_exact = hash_exact], <<>>)
              ELSE [engine EXCEPT !.hash_exact = hash_exact,
                                  !.simulating = TRUE,
                                  !.samples = <<>>,
                                  !.sim = NextSimulation(engine, hash_exact, 0)]
    /\ UNCHANGED <<bridge, replay_store, last_call, candidate_payload, scanner, threads>>

\* One pass of the event loop of the running simulation.
CombatEvent ==
    /\ engine.op = "timeline"
    /\ engine.simulating
    /\ engine.sim.running
    /\ engine' = [engine EXCEPT !.sim = CombatStep(engine.sim)]
    /\ UNCHANGED <<bridge, replay_store, last_call, candidate_payload, scanner, threads>>

\* The simulation has left its loop: evaluate_timeline starts the next run
\* of a monte_carlo wave, or returns.
SimulationReturns ==
    /\ engine.op = "timeline"
    /\ engine.simulating
    /\ ~engine.sim.running
    /\ engine' =
          LET samples == Append(engine.samples, engine.sim)
          IN IF Len(samples) < RunsOf(NormalizedMode(engine.mode),
                                      engine.monte_carlo_runs)
             THEN [engine EXCEPT
                      !.samples = samples,
                      !.sim = NextSimulation(engine, engine.hash_exact, Len(samples))]
             ELSE Returned(engine, samples)
    /\ UNCHANGED <<bridge, replay_store, last_call, candidate_payload, scanner, threads>>

TimelineNext == EvaluateTimeline \/ CombatEvent \/ SimulationReturns

SpecTimeline == TimelineInit /\ [][TimelineNext]_vars

(* ------------------------------ C11, C15 ------------------------------ *)

\* C11: two evaluations of the same (scenario, build, seed, mode,
\* monte_carlo_runs) serialize to the same result, in every mode.
C11_SameInputsSameResult ==
    engine.op = "timeline" /\ engine.evaluations = 2 =>
        /\ engine.evaluation.raised = engine.previous.raised
        /\ engine.evaluation.serialized = engine.previous.serialized

\* The finished simulations of the last evaluation, when it ran in combat
\* mode: one per wave.
CombatSims ==
    IF engine.op = "timeline" /\ engine.evaluations >= 1 /\ ~engine.simulating
       /\ NormalizedMode(engine.mode) = "combat"
    THEN {1}
    ELSE {}

\* C15 as stated: in combat mode the leaks of a wave is a natural number,
\* the number of its enemies that were not killed.
C15_LeaksCountEveryEnemyNotKilled ==
    \A w \in CombatSims :
        LET sim == engine.samples[w]
            leaks == engine.evaluation.serialized.wave_results[w].leaks
        IN /\ leaks >= 0
           /\ leaks % Scale = 0
           /\ leaks \div Scale =
                  Cardinality({i \in 1..Len(sim.enemies) : sim.enemies[i].alive})

\* C15: in combat mode the leaks of a wave is a natural number, the number
\* of its enemies that were not killed and whose spawn time lies within the
\* wave's duration.
C15_LeaksCountEnemiesSpawnedAndAlive ==
    \A w \in CombatSims :
        LET sim == engine.samples[w]
            leaks == engine.evaluation.serialized.wave_results[w].leaks
        IN /\ leaks >= 0
           /\ leaks % Scale = 0
           /\ leaks \div Scale =
                  Cardinality({i \in 1..Len(sim.enemies) :
                                  /\ sim.enemies[i].alive
                                  /\ sim.enemies[i].spawn_time
                                         <= engine.scenario.waves[w].duration_s})

\* A combat-mode wave ended with one enemy killed, one alive inside the
\* wave and counted, and one that would have spawned after the wave.
C15_Witness ==
    /\ CombatSims # {}
    /\ \E w \in CombatSims :
          LET sim == engine.samples[w]
          IN /\ engine.evaluation.serialized.wave_results[w].leaks = Scale
             /\ \E i \in 1..Len(sim.enemies) : ~sim.enemies[i].alive
             /\ \E i \in 1..Len(sim.enemies) :
                   sim.enemies[i].alive /\ sim.enemies[i].spawn_time <= sim.duration_s
             /\ \E i \in 1..Len(sim.enemies) :
                   sim.enemies[i].alive /\ sim.enemies[i].spawn_time > sim.duration_s


(* ------------------- calibration candidate recommendation ------------------- *)

\* Ratios, penalties and scores of the candidate scoring are kept to three
\* decimals: the number stored is the value times 1000.  The sampled counts
\* give ratios that are exact at three decimals.
DEFAULT_MIN_STABLE_PROBE_CYCLES == 3
DEFAULT_MIN_SNAPSHOT_OK_RATIO == 660
DEFAULT_MAX_TRANSIENT_299_RATIO_FOR_STABLE == 330
DEFAULT_MAX_TRANSIENT_299_CANDIDATES == 660
DEFAULT_TRANSIENT_299_CLUSTER_PENALTY == 75000
DEFAULT_TRANSIENT_299_CONNECT_PENALTY == 16000
DEFAULT_MAX_CONNECT_FAILURE_PENALTY == 120000
DEFAULT_MAX_SNAPSHOT_STREAK_PENALTY == 60000
DEFAULT_MAX_CONNECT_FAILURES_FOR_SCORE == 6
DEFAULT_MAX_SNAPSHOT_STREAK_FOR_SCORE == 6

\* str.strip() on the identifiers the payloads carry.
Strip(s) ==
    CASE s = " cand_a " -> "cand_a"
      [] s = " cand_b " -> "cand_b"
      [] s = " " -> ""
      [] OTHER -> s

\* f"candidate_{index}"
FallbackCandidateId(index) ==
    CASE index = 1 -> "candidate_1"
      [] index = 2 -> "candidate_2"
      [] index = 3 -> "candidate_3"
      [] index = 4 -> "candidate_4"
      [] OTHER -> "candidate_n"

\* _is_placeholder_address: non-positive addresses and the sentinel values.
\* Of the sentinels, 0xDEAD, 0xBEEF and 0x0BADF00D lie in the value range of the
\* model; the others exceed 2^31 - 1.
_is_placeholder_address(value) ==
    value <= 0 \/ value \in {57005, 48879, 195948557}

\* _field_has_resolved_address: the field payload is a dict with an address
\* that is not a placeholder.
_field_has_resolved_address(fields_payload, field_name) ==
    /\ field_name \in DOMAIN fields_payload
    /\ "address" \in DOMAIN fields_payload[field_name]
    /\ ~_is_placeholder_address(fields_payload[field_name].address)

\* raw_stability of a candidate: its "stability" dict, else its
\* "stability_metrics" dict, else {}.
RawStability(candidate) ==
    IF "stability" \in DOMAIN candidate THEN candidate.stability
    ELSE IF "stability_metrics" \in DOMAIN candidate THEN candidate.stability_metrics
    ELSE [x \in {} |-> 0]

\* _as_int(value_name, 0)
AsInt(raw_stability, value_name) ==
    IF value_name \in DOMAIN raw_stability THEN raw_stability[value_name] ELSE 0

\* The first of two keys whose value is positive, as the fallbacks of
\* _candidate_stability_stats read them.
AsIntOr(raw_stability, value_name, fallback_name) ==
    IF AsInt(raw_stability, value_name) > 0
    THEN AsInt(raw_stability, value_name)
    ELSE AsInt(raw_stability, fallback_name)

\* max(0.0, min(1.0, count / total)) at three decimals
CountRatio(count, total) ==
    IF total > 0 THEN Max2(0, Min2(1000, (count * 1000) \div total)) ELSE 0

\* The penalty sum of _candidate_stability_stats.
StabilityPenalty(stable_probe, ok_ratio, t299_ratio, t299_excessive, raw) ==
    LET connect_failures_total_last == AsInt(raw, "connect_failures_total_last")
        connect_retry_success_total == AsInt(raw, "connect_retry_success_total")
        connect_transient_failure_count == AsInt(raw, "connect_transient_failure_count")
        snapshot_failure_streak_max == AsInt(raw, "snapshot_failure_streak_max")
        snapshot_failures_total_last == AsInt(raw, "snapshot_failures_total_last")
        p1 == IF stable_probe THEN 0 ELSE 40000
        p2 == Max2(0, DEFAULT_MIN_SNAPSHOT_OK_RATIO - ok_ratio) * 45
        p3 == IF connect_failures_total_last > 0
              THEN Min2(DEFAULT_MAX_CONNECT_FAILURE_PENALTY,
                        connect_failures_total_last * 12500)
                   + (IF connect_failures_total_last > DEFAULT_MAX_CONNECT_FAILURES_FOR_SCORE
                      THEN 60000 ELSE 0)
              ELSE 0
        p4 == IF connect_transient_failure_count > 0
              THEN Min2(DEFAULT_MAX_TRANSIENT_299_CANDIDATES * 100,
                        connect_transient_failure_count
                            * DEFAULT_TRANSIENT_299_CONNECT_PENALTY)
                   + (IF connect_transient_failure_count >= 2
                      THEN DEFAULT_TRANSIENT_299_CLUSTER_PENALTY ELSE 0)
              ELSE 0
        p5 == IF connect_retry_success_total > 0
              THEN Max2(0, 4000 - connect_retry_success_total * 1000)
              ELSE 0
        p6 == IF snapshot_failures_total_last > 0
              THEN Min2(DEFAULT_MAX_SNAPSHOT_STREAK_PENALTY,
                        snapshot_failures_total_last * 1800)
              ELSE 0
        p7 == IF snapshot_failure_streak_max > 0
              THEN Min2(DEFAULT_MAX_SNAPSHOT_STREAK_PENALTY,
                        snapshot_failure_streak_max * 2500)
                   + (IF snapshot_failure_streak_max > DEFAULT_MAX_SNAPSHOT_STREAK_FOR_SCORE
                      THEN 45000 ELSE 0)
              ELSE 0
        p8 == IF ok_ratio < DEFAULT_MIN_SNAPSHOT_OK_RATIO
              THEN (DEFAULT_MIN_SNAPSHOT_OK_RATIO - ok_ratio) * 55
              ELSE 0
        p9 == IF ok_ratio < 250 THEN (250 - ok_ratio) * 180 ELSE 0
        p10 == IF t299_excessive
               THEN 35000
                    + (IF t299_ratio >= DEFAULT_MAX_TRANSIENT_299_RATIO_FOR_STABLE + 200
                       THEN 50000 ELSE 0)
               ELSE 0
        p11 == t299_ratio * 45
    IN  Max2(0, p1 + p2 + p3 + p4 + p5 + p6 + p7 + p8 + p9 + p10 + p11)

\* _candidate_stability_stats: the stability part of a candidate's quality.
_candidate_stability_stats(candidate) ==
    LET raw == RawStability(candidate)
    IN  IF DOMAIN raw = {}
        THEN [has_stability_metrics |-> FALSE,
              snapshot_ok_ratio |-> 0,
              transient_299_ratio |-> 0,
              candidate_stable_probe |-> FALSE,
              transient_299_excessive |-> FALSE,
              connect_failures_total_last |-> 0,
              snapshot_failure_streak_max |-> 0,
              stability_penalty |-> 100000,
              stability_score |-> 0]
        ELSE
        LET probe0 == AsIntOr(raw, "snapshot_probe_count", "probe_cycles")
            probe_count == IF probe0 > 0 THEN probe0 ELSE AsInt(raw, "probe_windows")
            ok_count == AsIntOr(raw, "snapshot_ok_count", "ok_count")
            total0 == AsIntOr(raw, "snapshot_total_count", "sample_count")
            total_count == IF total0 > 0 THEN total0 ELSE Max2(probe_count, ok_count)
            transient_299_count == AsIntOr(raw, "transient_299_count", "winerr299_count")
            snapshot_ok_ratio == CountRatio(ok_count, total_count)
            transient_299_ratio == CountRatio(transient_299_count, total_count)
            transient_299_excessive ==
                transient_299_ratio >= DEFAULT_MAX_TRANSIENT_299_RATIO_FOR_STABLE
            candidate_stable_probe ==
                /\ probe_count >= DEFAULT_MIN_STABLE_PROBE_CYCLES
                /\ snapshot_ok_ratio >= DEFAULT_MIN_SNAPSHOT_OK_RATIO
                /\ ~transient_299_excessive
            stability_penalty ==
                StabilityPenalty(candidate_stable_probe, snapshot_ok_ratio,
                                 transient_299_ratio, transient_299_excessive, raw)
        IN  [has_stability_metrics |-> TRUE,
             snapshot_ok_ratio |-> snapshot_ok_ratio,
             transient_299_ratio |-> transient_299_ratio,
             candidate_stable_probe |-> candidate_stable_probe,
             transient_299_excessive |-> transient_299_excessive,
             connect_failures_total_last |-> AsInt(raw, "connect_failures_total_last"),
             snapshot_failure_streak_max |-> AsInt(raw, "snapshot_failure_streak_max"),
             stability_penalty |-> stability_penalty,
             stability_score |-> Max2(0, 100000 - stability_penalty)]

\* _candidate_quality: the required fields a candidate resolves, whether it
\* resolves all of them, and its stability statistics.
_candidate_quality(fields_payload, required_fields, candidate) ==
    LET resolved_required ==
            {name \in SeqRange(required_fields) :
                _field_has_resolved_address(fields_payload, name)}
        resolved_required_count == Cardinality(resolved_required)
    IN  [valid |-> resolved_required_count = Len(required_fields),
         resolved_required_count |-> resolved_required_count,
         stability |-> _candidate_stability_stats(candidate)]

\* The id _iter_candidate_entries gives the index-th candidate of the payload.
CandidateEntryId(candidate, index) ==
    LET raw_id == IF "id" \in DOMAIN candidate THEN candidate.id ELSE ""
    IN  IF Strip(raw_id) # "" THEN Strip(raw_id) ELSE FallbackCandidateId(index)

\* _iter_candidate_entries raises MemoryProfileError: no candidate entry, or
\* two entries with the same id.
IterCandidateEntriesRaises(calibration_payload) ==
    LET candidates == calibration_payload.candidates
    IN  \/ Len(candidates) = 0
        \/ \E i, j \in 1..Len(candidates) :
              /\ i < j
              /\ CandidateEntryId(candidates[i], i) = CandidateEntryId(candidates[j], j)

\* The active candidate id of a calibration payload.
ActiveCandidateId(calibration_payload) ==
    IF "active_candidate_id" \in DOMAIN calibration_payload
    THEN Strip(calibration_payload.active_candidate_id)
    ELSE IF "active_candidate" \in DOMAIN calibration_payload
    THEN Strip(calibration_payload.active_candidate)
    ELSE ""

\* The score entry calibration_candidate_recommendation builds from the
\* index-th candidate summary.
CandidateScore(calibration_payload, index) ==
    LET candidate == calibration_payload.candidates[index]
        quality == _candidate_quality(
                       IF "fields" \in DOMAIN candidate
                       THEN candidate.fields ELSE [x \in {} |-> 0],
                       REQUIRED_MEMORY_FIELDS, candidate)
        id == CandidateEntryId(candidate, index)
    IN  [id |-> id,
         valid |-> quality.valid,
         resolved_required_fields |-> quality.resolved_required_count,
         is_active_candidate |-> id = ActiveCandidateId(calibration_payload),
         original_order |-> index,
         has_stability_metrics |-> quality.stability.has_stability_metrics,
         candidate_stable_probe |-> quality.stability.candidate_stable_probe,
         candidate_stability_score |-> quality.stability.stability_score,
         snapshot_ok_ratio |-> quality.stability.snapshot_ok_ratio,
         transient_299_ratio |-> quality.stability.transient_299_ratio,
         transient_299_excessive |-> quality.stability.transient_299_excessive,
         connect_failures_total_last |-> quality.stability.connect_failures_total_last,
         snapshot_failure_streak_max |-> quality.stability.snapshot_failure_streak_max,
         stability_penalty |-> quality.stability.stability_penalty]

BoolInt(b) == IF b THEN 1 ELSE 0

\* A sort key in which the payload order alone decides.
SortKeyOriginalOrder(item) == <<item.original_order>>

\* _sort_key of calibration_candidate_recommendation
_sort_key(item) ==
    <<-BoolInt(item.valid),
      -BoolInt(item.candidate_stable_probe),
      -item.candidate_stability_score,
      item.stability_penalty,
      item.connect_failures_total_last,
      item.snapshot_failure_streak_max,
      -item.snapshot_ok_ratio,
      item.transient_299_ratio,
      -BoolInt(item.is_active_candidate),
      item.original_order>>

\* Python's tuple order on two keys of the same length.
TupleLess(a, b) ==
    \E i \in 1..Len(a) :
        /\ a[i] < b[i]
        /\ \A j \in 1..(i - 1) : a[j] = b[j]

\* sorted(contenders, key=_sort_key)[0]; original_order makes the keys distinct.
FirstBySortKey(contenders) ==
    CHOOSE item \in contenders :
        \A other \in contenders \ {item} : TupleLess(_sort_key(item), _sort_key(other))

\* The outcome of a call that raised MemoryProfileError.
RecommendationRaised ==
    [raised |-> TRUE, preferred_candidate_id |-> "", active_candidate_id |-> "",
     recommended_candidate_id |-> "", reason |-> "",
     no_stable_candidate |-> FALSE, candidate_scores |-> <<>>]

\* A recommendation that ignores the preferred candidate.
PreferredIgnored(preferred, scores) == FALSE

\* The test of the first branch: preferred names a valid candidate.
PreferredIsValid(preferred, scores) ==
    /\ preferred # ""
    /\ \E i \in 1..Len(scores) : scores[i].id = preferred /\ scores[i].valid

\* A restriction that lets every contender with stability data through.
StableContendersUnfiltered(contenders_with_stability_data) ==
    contenders_with_stability_data

\* stable_contenders of calibration_candidate_recommendation
StableContenders(contenders_with_stability_data) ==
    {item \in contenders_with_stability_data :
        /\ item.candidate_stable_probe
        /\ item.candidate_stability_score > 0
        /\ ~item.transient_299_excessive}

\* The selection part of calibration_candidate_recommendation, on the score
\* entries built from the summaries.
RecommendationFromScores(preferred, active_id, items, scores) ==
    LET max_resolved_required ==
            CHOOSE n \in {item.resolved_required_fields : item \in items} :
                \A item \in items : item.resolved_required_fields <= n
        contenders0 ==
            {item \in items : item.resolved_required_fields = max_resolved_required}
        contenders_with_stability_data ==
            {item \in contenders0 : item.has_stability_metrics}
        stable_contenders == StableContenders(contenders_with_stability_data)
        no_stable_candidate ==
            stable_contenders = {} /\ contenders_with_stability_data # {}
        contenders ==
            IF stable_contenders # {} THEN stable_contenders
            ELSE IF contenders_with_stability_data # {}
            THEN contenders_with_stability_data
            ELSE contenders0
        active_contender == FirstBySortKey(contenders)
        out == [raised |-> FALSE,
                preferred_candidate_id |-> preferred,
                active_candidate_id |-> active_id,
                recommended_candidate_id |-> "",
                reason |-> "",
                no_stable_candidate |-> FALSE,
                candidate_scores |-> scores]
    IN  IF PreferredIsValid(preferred, scores)
        THEN [out EXCEPT !.recommended_candidate_id = preferred,
                         !.reason = "preferred_candidate_valid"]
        ELSE [out EXCEPT
                !.recommended_candidate_id =
                    IF contenders_with_stability_data # {} /\ no_stable_candidate
                    THEN "" ELSE active_contender.id,
                !.reason =
                    IF no_stable_candidate /\ stable_contenders = {}
                    THEN "max_required_resolved_no_stable_probe"
                    ELSE IF active_contender.is_active_candidate
                    THEN "max_required_resolved_active_candidate_tiebreak"
                    ELSE "max_required_resolved_original_order_tiebreak",
                !.no_stable_candidate = no_stable_candidate]

\* calibration_candidate_recommendation(calibration_payload,
\*                                      preferred_candidate_id=...): the score
\* entries are built once, then the selection runs on them.
calibration_candidate_recommendation(calibration_payload, preferred_candidate_id) ==
    IF IterCandidateEntriesRaises(calibration_payload) THEN RecommendationRaised
    ELSE
    CHOOSE out \in
        {RecommendationFromScores(Strip(preferred_candidate_id),
                                  ActiveCandidateId(calibration_payload),
                                  items,
                                  [index \in 1..Cardinality(items) |->
                                      CHOOSE item \in items : item.original_order = index]) :
            items \in {{CandidateScore(calibration_payload, index) :
                          index \in 1..Len(calibration_payload.candidates)}}} : TRUE

\* The largest number of candidates in a sampled calibration payload.
MaxCandidates == 3

\* Field payloads of a candidate: all three required fields resolved, gold
\* left at the placeholder address 0, and only current_wave present.
CandidateFieldsFull ==
    [current_wave |-> [address |-> 4096], gold |-> [address |-> 4100],
     essence |-> [address |-> 4104]]

CandidateFieldsPartial ==
    [current_wave |-> [address |-> 4096], gold |-> [address |-> 0],
     essence |-> [address |-> 4104]]

CandidateFieldsSparse ==
    [current_wave |-> [address |-> 4096], gold |-> [offset |-> 8]]

\* The candidate bodies (everything but the id) the payloads are built from:
\* without stability data, with an empty stability dict, with a stable probe,
\* with a stable probe and a recorded snapshot failure, with too few probe
\* cycles, with a stable probe whose connect failures bring the score to 0,
\* and with an excessive share of transient 299 errors.
CandidateBodies ==
    {[fields |-> CandidateFieldsFull],
     [fields |-> CandidateFieldsPartial],
     [fields |-> CandidateFieldsSparse, stability |-> [x \in {} |-> 0]],
     [fields |-> CandidateFieldsFull,
      stability |-> [snapshot_probe_count |-> 4, snapshot_ok_count |-> 4,
                     snapshot_total_count |-> 4]],
     [fields |-> CandidateFieldsFull,
      stability_metrics |-> [probe_cycles |-> 5, ok_count |-> 4,
                             snapshot_failures_total_last |-> 1]],
     [fields |-> CandidateFieldsFull,
      stability |-> [snapshot_probe_count |-> 2, snapshot_ok_count |-> 1,
                     snapshot_total_count |-> 4]],
     [fields |-> CandidateFieldsFull,
      stability |-> [snapshot_probe_count |-> 4, snapshot_ok_count |-> 4,
                     snapshot_total_count |-> 4,
                     connect_failures_total_last |-> 7,
                     connect_transient_failure_count |-> 2]],
     [fields |-> CandidateFieldsFull,
      stability |-> [probe_windows |-> 4, ok_count |-> 4, sample_count |-> 4,
                     winerr299_count |-> 2]],
     [fields |-> CandidateFieldsPartial,
      stability |-> [snapshot_probe_count |-> 4, snapshot_ok_count |-> 4,
                     snapshot_total_count |-> 4]]}

\* The raw id of the candidate at a position of the payload: padded with
\* blanks at position 2, empty at position 3.
RawCandidateId(index) ==
    CASE index = 1 -> "cand_a"
      [] index = 2 -> " cand_b "
      [] index = 3 -> ""
      [] OTHER -> "cand_d"

WithId(body, id) ==
    [key \in DOMAIN body \cup {"id"} |-> IF key = "id" THEN id ELSE body[key]]

\* The candidate lists of n entries; a list of two may repeat the first id.
CandidateLists(n) ==
    {[index \in 1..n |-> WithId(bodies[index], RawCandidateId(index))] :
        bodies \in [1..n -> CandidateBodies]}
    \cup (IF n = 2
          THEN {<<WithId(b1, "cand_a"), WithId(b2, " cand_a ")>> :
                   b1 \in {[fields |-> CandidateFieldsFull]}, b2 \in CandidateBodies}
          ELSE {})

CalibrationPayloads ==
    {[candidates |-> candidates, active_candidate_id |-> active] :
        candidates \in UNION {CandidateLists(n) : n \in 1..MaxCandidates},
        active \in {"", "cand_a", " cand_b ", "candidate_3"}}
    \cup {[candidates |-> candidates, active_candidate |-> "cand_b"] :
             candidates \in CandidateLists(2)}
    \cup {[candidates |-> <<>>]}

PreferredCandidateIds == {"", " cand_a ", "cand_b", "candidate_3", "cand_x"}

NoRecommendation ==
    [raised |-> FALSE, preferred_candidate_id |-> "", active_candidate_id |-> "",
     recommended_candidate_id |-> "", reason |-> "",
     no_stable_candidate |-> FALSE, candidate_scores |-> <<>>]

RecommendationInit ==
    /\ bridge = NewBridge
    /\ threads = NoThreads
    /\ scanner = NoScanner
    /\ replay_store = [id \in {} |-> <<>>]
    /\ last_call = Call("init", "", NoSnapshot, "", "")
    /\ engine = NoEngine
    /\ candidate_payload \in
          {[op |-> "payload", calibration_payload |-> payload,
            preferred_candidate_id |-> preferred, result |-> NoRecommendation] :
              payload \in CalibrationPayloads, preferred \in PreferredCandidateIds}

\* One call of calibration_candidate_recommendation on the sampled payload.
Recommend ==
    /\ candidate_payload.op = "payload"
    /\ candidate_payload' =
          [candidate_payload EXCEPT
              !.op = "recommended",
              !.result = calibration_candidate_recommendation(
                             candidate_payload.calibration_payload,
                             candidate_payload.preferred_candidate_id)]
    /\ UNCHANGED <<bridge, replay_store, last_call, engine, scanner, threads>>

RecommendationNext == Recommend

SpecRecommendation == RecommendationInit /\ [][RecommendationNext]_vars

\* The score entries of the returned recommendation, and the cases of the
\* selection spelled out on them.
ReturnedScores == SeqRange(candidate_payload.result.candidate_scores)

RecommendationReturned ==
    candidate_payload.op = "recommended" /\ ~candidate_payload.result.raised

PreferredNamesValidCandidate ==
    \E item \in ReturnedScores :
        /\ item.id = Strip(candidate_payload.preferred_candidate_id)
        /\ item.valid

MaxResolvedContenders ==
    {item \in ReturnedScores :
        \A other \in ReturnedScores :
            other.resolved_required_fields <= item.resolved_required_fields}

IsStableContender(item) ==
    /\ item.candidate_stable_probe
    /\ item.candidate_stability_score > 0
    /\ ~item.transient_299_excessive

\* C17: whenever preferred_candidate_id names a candidate of the payload whose
\* valid flag is true, the recommendation is that candidate with reason
\* 'preferred_candidate_valid', whatever the active candidate, the candidate
\* order and the stability metrics are.
C17_PreferredValidIsRecommended ==
    (RecommendationReturned /\ PreferredNamesValidCandidate) =>
        /\ candidate_payload.result.recommended_candidate_id =
              Strip(candidate_payload.preferred_candidate_id)
        /\ candidate_payload.result.reason = "preferred_candidate_valid"

\* The preferred candidate is valid, comes second and carries no stability
\* data, while the first candidate is the active one and has a stable probe.
C17_Witness ==
    /\ RecommendationReturned
    /\ PreferredNamesValidCandidate
    /\ candidate_payload.result.recommended_candidate_id = "cand_b"
    /\ candidate_payload.result.active_candidate_id = "cand_a"
    /\ Len(candidate_payload.result.candidate_scores) >= 2
    /\ IsStableContender(candidate_payload.result.candidate_scores[1])
    /\ candidate_payload.result.candidate_scores[1].valid
    /\ ~candidate_payload.result.candidate_scores[2].has_stability_metrics

\* C18: when preferred is empty or not valid and no candidate carries
\* stability metrics, the recommended candidate is one of those with the
\* maximum resolved_required_count: the active candidate if it is among them
\* (reason 'max_required_resolved_active_candidate_tiebreak'), otherwise the
\* first of them in payload order (reason
\* 'max_required_resolved_original_order_tiebreak').
C18_MaxResolvedThenActiveThenOrder ==
    (/\ RecommendationReturned
     /\ ~PreferredNamesValidCandidate
     /\ \A item \in ReturnedScores : ~item.has_stability_metrics) =>
        \E chosen \in MaxResolvedContenders :
            /\ candidate_payload.result.recommended_candidate_id = chosen.id
            /\ IF \E item \in MaxResolvedContenders :
                      item.id = candidate_payload.result.active_candidate_id
               THEN /\ chosen.id = candidate_payload.result.active_candidate_id
                    /\ candidate_payload.result.reason =
                          "max_required_resolved_active_candidate_tiebreak"
               ELSE /\ \A item \in MaxResolvedContenders :
                          chosen.original_order <= item.original_order
                    /\ candidate_payload.result.reason =
                          "max_required_resolved_original_order_tiebreak"

\* Without stability data, the active candidate wins the tie against an
\* earlier candidate with as many resolved required fields, while a third
\* candidate resolves fewer.
C18_Witness ==
    /\ RecommendationReturned
    /\ ~PreferredNamesValidCandidate
    /\ \A item \in ReturnedScores : ~item.has_stability_metrics
    /\ Cardinality(ReturnedScores) = 3
    /\ Cardinality(MaxResolvedContenders) = 2
    /\ candidate_payload.result.recommended_candidate_id = "cand_b"
    /\ candidate_payload.result.active_candidate_id = "cand_b"
    /\ candidate_payload.result.candidate_scores[1] \in MaxResolvedContenders
    /\ candidate_payload.result.reason =
          "max_required_resolved_active_candidate_tiebreak"

\* C19: when preferred is empty or not valid and a max-resolved contender
\* carries stability metrics, then either some contender has a stable probe,
\* a positive stability score and no excessive transient 299 share, and the
\* recommended candidate is such a contender, or there is none, and
\* no_stable_candidate is true, the recommended id is empty and the reason is
\* 'max_required_resolved_no_stable_probe'.
C19_StableContendersOrNone ==
    (/\ RecommendationReturned
     /\ ~PreferredNamesValidCandidate
     /\ \E item \in MaxResolvedContenders : item.has_stability_metrics) =>
        IF \E item \in MaxResolvedContenders : IsStableContender(item)
        THEN \E chosen \in MaxResolvedContenders :
                /\ IsStableContender(chosen)
                /\ candidate_payload.result.recommended_candidate_id = chosen.id
        ELSE /\ candidate_payload.result.no_stable_candidate
             /\ candidate_payload.result.recommended_candidate_id = ""
             /\ candidate_payload.result.reason =
                   "max_required_resolved_no_stable_probe"

\* The contenders carry stability data but none is stable (one has a stable
\* probe with score 0, the active one has no data at all): nothing is
\* recommended.
C19_Witness ==
    /\ RecommendationReturned
    /\ ~PreferredNamesValidCandidate
    /\ \E item \in MaxResolvedContenders :
          /\ item.candidate_stable_probe
          /\ item.candidate_stability_score = 0
    /\ \E item \in MaxResolvedContenders :
          ~item.has_stability_metrics /\ item.is_active_candidate
    /\ ~\E item \in MaxResolvedContenders : IsStableContender(item)
    /\ candidate_payload.result.no_stable_candidate
    /\ candidate_payload.result.recommended_candidate_id = ""



(* --------------------- applying a calibration candidate --------------------- *)

\* choose_calibration_candidate_id: the recommended id, else the preferred id
\* if it names a valid score entry, else the first of all score entries by
\* the sort key.  Callers test IterCandidateEntriesRaises first.
choose_calibration_candidate_id(calibration_payload, preferred_candidate_id) ==
    LET recommendation ==
            calibration_candidate_recommendation(calibration_payload,
                                                 preferred_candidate_id)
        selected == Strip(recommendation.recommended_candidate_id)
    IN  IF selected # "" THEN selected
        ELSE IF PreferredIsValid(Strip(preferred_candidate_id),
                                 recommendation.candidate_scores)
        THEN Strip(preferred_candidate_id)
        ELSE FirstBySortKey(SeqRange(recommendation.candidate_scores)).id

\* A MemoryFieldSpec with all its attributes.
MemoryFieldSpec(source, value_type, address, offsets, relative_to_module) ==
    [source |-> source, value_type |-> value_type, address |-> address,
     offsets |-> offsets, relative_to_module |-> relative_to_module]

\* _field_payload_from_spec
_field_payload_from_spec(spec) ==
    [source |-> spec.source, type |-> spec.value_type, address |-> spec.address,
     offsets |-> spec.offsets, relative_to_module |-> spec.relative_to_module]

\* dict(a).update(b)
DictUpdate(a, b) ==
    [key \in DOMAIN a \cup DOMAIN b |-> IF key \in DOMAIN b THEN b[key] ELSE a[key]]

\* payload.get(key, default)
DictGet(payload, key, default) ==
    IF key \in DOMAIN payload THEN payload[key] ELSE default

\* MemoryFieldSpec.from_dict raises MemoryProfileError: unsupported source or
\* type.  Addresses and offsets are JSON integers, which _parse_int returns
\* as they are.
FieldFromDictRaises(payload) ==
    \/ LowerStrip(DictGet(payload, "source", "address"))
          \notin {"address", "pointer_chain"}
    \/ LowerStrip(DictGet(payload, "type", "int32"))
          \notin {"int32", "uint32", "float32", "float64"}

\* MemoryFieldSpec.from_dict
MemoryFieldSpec_from_dict(payload) ==
    MemoryFieldSpec(LowerStrip(DictGet(payload, "source", "address")),
                    LowerStrip(DictGet(payload, "type", "int32")),
                    DictGet(payload, "address", DictGet(payload, "base_address", 0)),
                    DictGet(payload, "offsets", <<>>),
                    DictGet(payload, "relative_to_module", FALSE))

\* A merge that takes the override alone, dropping the base field's attributes.
MergedPayloadOverrideOnly(base_spec, override) == override

\* merged_payload of apply_calibration_candidate: the override laid over the
\* payload of the base field.
MergedPayload(base_spec, override) ==
    DictUpdate(_field_payload_from_spec(base_spec), override)

\* The payload each field of the calibrated profile is parsed from.
MergedFieldPayloads(base_profile, raw_fields) ==
    [field_name \in (DOMAIN base_profile.fields \cap DOMAIN raw_fields)
                      \cup (DOMAIN raw_fields \ DOMAIN base_profile.fields) |->
        IF field_name \in DOMAIN base_profile.fields
        THEN MergedPayload(base_profile.fields[field_name], raw_fields[field_name])
        ELSE raw_fields[field_name]]

\* merged_fields of apply_calibration_candidate
MergedFields(base_profile, raw_fields) ==
    LET payloads == MergedFieldPayloads(base_profile, raw_fields)
    IN  [field_name \in DOMAIN base_profile.fields \cup DOMAIN raw_fields |->
            IF field_name \in DOMAIN payloads
            THEN MemoryFieldSpec_from_dict(payloads[field_name])
            ELSE base_profile.fields[field_name]]

\* _candidate_target_profile
_candidate_target_profile(candidate) ==
    Strip(DictGet(candidate, "profile_id", DictGet(candidate, "base_profile_id", "")))

\* A compatibility test that lets every candidate through.
CompatibleAlways(candidate, base_profile) == TRUE

\* The candidates apply_calibration_candidate keeps: those without a target
\* profile and those whose target is the base profile.
Compatible(candidate, base_profile) ==
    \/ _candidate_target_profile(candidate) = ""
    \/ _candidate_target_profile(candidate) = base_profile.id

\* compatible_list of apply_calibration_candidate: the compatible candidates,
\* each under the id its position in the payload gives it.
CompatibleList(base_profile, calibration_payload) ==
    LET candidates == calibration_payload.candidates
        entries == [index \in 1..Len(candidates) |->
                       WithId(candidates[index],
                              CandidateEntryId(candidates[index], index))]
    IN  SelectSeq(entries, LAMBDA candidate : Compatible(candidate, base_profile))

\* The outcome of an apply_calibration_candidate call that raised.
ApplyRaised == [raised |-> TRUE, selected_id |-> "", profile |-> <<>>]

\* The calibrated profile built from the selected candidate's payload.
CalibratedProfile(base_profile, selected_id, selected_payload) ==
    [id |-> IF Strip(DictGet(selected_payload, "result_profile_id", "")) # ""
            THEN Strip(DictGet(selected_payload, "result_profile_id", ""))
            ELSE base_profile.id \o "@" \o selected_id,
     poll_ms |-> Max2(200, DictGet(selected_payload, "poll_ms", base_profile.poll_ms)),
     required_admin |->
         DictGet(selected_payload, "required_admin", base_profile.required_admin),
     pointer_size |->
         DictGet(selected_payload, "pointer_size",
                 DictGet(selected_payload, "pointer_size_bytes",
                         base_profile.pointer_size)),
     required_combat_fields |-> base_profile.required_combat_fields,
     fields |-> MergedFields(base_profile, selected_payload.fields)]

\* apply_calibration_candidate(base_profile, calibration_payload, candidate_id)
\* on payloads whose candidates name no process, module or combat field sets.
ApplyCalibrationCandidate(base_profile, calibration_payload, candidate_id) ==
    IF IterCandidateEntriesRaises(calibration_payload) THEN ApplyRaised
    ELSE
    LET compatible_list == CompatibleList(base_profile, calibration_payload)
    IN  IF Len(compatible_list) = 0 THEN ApplyRaised
        ELSE
        CHOOSE out \in
            {LET selected_payload ==
                     CHOOSE candidate \in SeqRange(compatible_list) :
                         candidate.id = selected_id
                 payloads ==
                     MergedFieldPayloads(base_profile, selected_payload.fields)
             IN  IF \/ "fields" \notin DOMAIN selected_payload
                    \/ DOMAIN selected_payload.fields = {}
                    \/ \E name \in DOMAIN payloads : FieldFromDictRaises(payloads[name])
                    \/ DictGet(selected_payload, "pointer_size",
                               DictGet(selected_payload, "pointer_size_bytes", 0))
                          \notin {0, 4, 8}
                 THEN ApplyRaised
                 ELSE [raised |-> FALSE,
                       selected_id |-> selected_id,
                       profile |-> CalibratedProfile(base_profile, selected_id,
                                                     selected_payload)] :
             selected_id \in
                 {choose_calibration_candidate_id(
                      [active_candidate_id |-> ActiveCandidateId(calibration_payload),
                       candidates |-> compatible_list],
                      Strip(candidate_id))}} : TRUE

\* The base profiles a candidate is applied to.
FullProfile(id) ==
    [id |-> id,
     poll_ms |-> 1000,
     required_admin |-> TRUE,
     pointer_size |-> 8,
     required_combat_fields |-> REQUIRED_MEMORY_FIELDS,
     fields |-> [current_wave |-> MemoryFieldSpec("address", "int32", 4096, <<>>, TRUE),
                 gold |-> MemoryFieldSpec("pointer_chain", "float32", 0, <<16>>, TRUE),
                 essence |-> MemoryFieldSpec("pointer_chain", "int32", 0, <<0>>, FALSE)]]

\* Field overrides of a candidate: addresses only; addresses with offsets, a
\* type and a source to normalise and a field the base does not have; a
\* partial override without addresses; an unsupported type; no field at all.
OverrideAddresses ==
    [current_wave |-> [address |-> 4368], gold |-> [address |-> 8736],
     essence |-> [address |-> 13104]]

OverrideAttributes ==
    [gold |-> [address |-> 21840, offsets |-> <<24, 8>>, type |-> " Float64 ",
               source |-> "POINTER_CHAIN"],
     essence |-> [address |-> 26208, relative_to_module |-> TRUE],
     lives |-> [address |-> 4200]]

OverridePartial == [gold |-> [offsets |-> <<32>>]]

OverrideBadType == [gold |-> [address |-> 8736, type |-> "int64"]]

OverrideNothing == [x \in {} |-> 0]

\* The candidate bodies of the applied payloads: the field overrides, with and
\* without a target profile, a result_profile_id, a poll_ms and a
\* pointer_size.
ApplyCandidateBodies ==
    {[fields |-> OverrideAddresses],
     [fields |-> OverrideAttributes],
     [fields |-> OverridePartial],
     [fields |-> OverrideBadType],
     [fields |-> OverrideNothing],
     [fields |-> OverrideAddresses, profile_id |-> " base_profile "],
     [fields |-> OverrideAddresses, profile_id |-> "other_profile"],
     [fields |-> OverrideAttributes, profile_id |-> "other_profile"],
     [fields |-> OverridePartial, profile_id |-> " base_profile ", poll_ms |-> 250],
     [fields |-> OverrideAddresses, base_profile_id |-> "other_profile",
      required_admin |-> FALSE, poll_ms |-> 50],
     [fields |-> OverrideAttributes, result_profile_id |-> "calibrated_profile",
      pointer_size |-> 4],
     [fields |-> OverrideAddresses, result_profile_id |-> " ", pointer_size_bytes |-> 4],
     [fields |-> OverrideAddresses, result_profile_id |-> "calibrated_profile",
      pointer_size |-> 2]}

ApplyCandidateLists(n) ==
    {[index \in 1..n |-> WithId(bodies[index], RawCandidateId(index))] :
        bodies \in [1..n -> ApplyCandidateBodies]}

ApplyPayloads ==
    {[candidates |-> candidates, active_candidate_id |-> active] :
        candidates \in UNION {ApplyCandidateLists(n) : n \in 1..(MaxCandidates - 1)},
        active \in {"", " cand_b "}}
    \cup {[candidates |-> <<>>]}

NoApply == [raised |-> FALSE, selected_id |-> "", profile |-> <<>>]

ApplyInit ==
    /\ bridge = NewBridge
    /\ threads = NoThreads
    /\ scanner = NoScanner
    /\ replay_store = [id \in {} |-> <<>>]
    /\ last_call = Call("init", "", NoSnapshot, "", "")
    /\ engine = NoEngine
    /\ candidate_payload \in
          {[op |-> "payload", base_profile |-> FullProfile(id),
            calibration_payload |-> payload, candidate_id |-> candidate_id,
            result |-> NoApply] :
              id \in {"base_profile", "other_profile"},
              payload \in ApplyPayloads,
              candidate_id \in {"", "cand_a", " cand_b "}}

\* One call of apply_calibration_candidate on the sampled base profile and
\* payload.
ApplyCandidate ==
    /\ candidate_payload.op = "payload"
    /\ candidate_payload' =
          [candidate_payload EXCEPT
              !.op = "applied",
              !.result = ApplyCalibrationCandidate(
                             candidate_payload.base_profile,
                             candidate_payload.calibration_payload,
                             candidate_payload.candidate_id)]
    /\ UNCHANGED <<bridge, replay_store, last_call, engine, scanner, threads>>

ApplyNext == ApplyCandidate

SpecApply == ApplyInit /\ [][ApplyNext]_vars

\* The candidate of a payload that carries the selected id.
SelectedCandidate(call) ==
    LET candidates == call.calibration_payload.candidates
    IN  candidates[CHOOSE index \in 1..Len(candidates) :
                       CandidateEntryId(candidates[index], index)
                           = call.result.selected_id]

\* An attribute of a field of the calibrated profile as the overlay defines
\* it: the override's value if it gives one, else the base field's, else the
\* default of a field spec.
OverlaidAttribute(base_profile, field_name, override, key, attribute, default) ==
    IF key \in DOMAIN override THEN override[key]
    ELSE IF field_name \in DOMAIN base_profile.fields
    THEN base_profile.fields[field_name][attribute]
    ELSE default

OverlaidField(base_profile, field_name, override) ==
    [source |-> LowerStrip(OverlaidAttribute(base_profile, field_name, override,
                                             "source", "source", "address")),
     value_type |-> LowerStrip(OverlaidAttribute(base_profile, field_name, override,
                                                 "type", "value_type", "int32")),
     address |-> OverlaidAttribute(base_profile, field_name, override,
                                   "address", "address", 0),
     offsets |-> OverlaidAttribute(base_profile, field_name, override,
                                   "offsets", "offsets", <<>>),
     relative_to_module |-> OverlaidAttribute(base_profile, field_name, override,
                                              "relative_to_module",
                                              "relative_to_module", FALSE)]

\* The fields of the calibrated profile are the selected candidate's overrides
\* laid over the base fields, the other base fields are kept, and the selected
\* candidate does not target another profile.
FieldsOverlaid(call) ==
    LET selected == SelectedCandidate(call)
        base_profile == call.base_profile
        profile == call.result.profile
    IN  /\ DOMAIN profile.fields = DOMAIN base_profile.fields \cup DOMAIN selected.fields
        /\ \A field_name \in DOMAIN selected.fields :
              profile.fields[field_name] =
                  OverlaidField(base_profile, field_name, selected.fields[field_name])
        /\ \A field_name \in DOMAIN base_profile.fields \ DOMAIN selected.fields :
              profile.fields[field_name] = base_profile.fields[field_name]
        /\ Strip(DictGet(selected, "profile_id",
                         DictGet(selected, "base_profile_id", "")))
              \in {"", base_profile.id}

AppliedStep ==
    /\ candidate_payload.op = "payload"
    /\ candidate_payload'.op = "applied"
    /\ ~candidate_payload'.result.raised

\* C20 as stated: every returned apply_calibration_candidate call yields a
\* profile with id '<base id>@<candidate id>' whose fields are the selected
\* candidate's overrides laid over the base fields, the other fields being the
\* base's; the base profile is unchanged, and the selected candidate does not
\* name a different base profile.
C20_ProfileIdIsBaseAtCandidate ==
    [][AppliedStep =>
          /\ candidate_payload'.result.profile.id =
                candidate_payload.base_profile.id \o "@"
                    \o candidate_payload'.result.selected_id
          /\ FieldsOverlaid(candidate_payload')
          /\ candidate_payload'.base_profile = candidate_payload.base_profile]_vars

\* C20, amended: the profile id is the selected candidate's result_profile_id
\* when it carries a non-blank one and '<base id>@<candidate id>' otherwise;
\* the fields are the selected candidate's overrides laid over the base
\* fields, the other fields are the base's, the base profile is unchanged and
\* the selected candidate does not name a different base profile.
C20_ProfileIdIsResultIdOrBaseAtCandidate ==
    [][AppliedStep =>
          /\ candidate_payload'.result.profile.id =
                (IF Strip(DictGet(SelectedCandidate(candidate_payload'),
                                  "result_profile_id", "")) # ""
                 THEN Strip(SelectedCandidate(candidate_payload').result_profile_id)
                 ELSE candidate_payload.base_profile.id \o "@"
                          \o candidate_payload'.result.selected_id)
          /\ FieldsOverlaid(candidate_payload')
          /\ candidate_payload'.base_profile = candidate_payload.base_profile]_vars

\* The requested first candidate targets another profile; the second one is
\* applied: it carries a result_profile_id, overrides attributes of gold and
\* essence, adds a field and leaves current_wave to the base.
C20_Witness ==
    /\ candidate_payload.op = "applied"
    /\ ~candidate_payload.result.raised
    /\ candidate_payload.base_profile.id = "base_profile"
    /\ Strip(candidate_payload.candidate_id) = "cand_a"
    /\ Len(candidate_payload.calibration_payload.candidates) = 2
    /\ DictGet(candidate_payload.calibration_payload.candidates[1], "profile_id", "")
          = "other_profile"
    /\ candidate_payload.result.selected_id = "cand_b"
    /\ candidate_payload.result.profile.id = "calibrated_profile"
    /\ candidate_payload.result.profile.fields.gold =
          MemoryFieldSpec("pointer_chain", "float64", 21840, <<24, 8>>, TRUE)
    /\ candidate_payload.result.profile.fields.current_wave =
          candidate_payload.base_profile.fields.current_wave
    /\ "lives" \in DOMAIN candidate_payload.result.profile.fields



(* --------------------------- resolved field checks --------------------------- *)

\* LiveBridge._field_coverage: how many of the required fields the memory
\* profile resolves, by MemoryFieldSpec.resolved.
_field_coverage(profile, required_fields) ==
    [required_total |-> Len(required_fields),
     required_resolved |->
         Cardinality({name \in SeqRange(required_fields) :
                         name \in DOMAIN profile.fields
                         /\ resolved(profile.fields[name])})]

\* The addresses a required field of the checked profiles can carry: zero, a
\* negative number, real addresses and placeholder sentinels.
ProfileAddresses == {0, -1, 4096, 4100, 57005, 195948557}

\* The field payload a calibration candidate holds for the fields of a
\* profile: the same addresses under the key "address".
CandidateFieldsOf(profile) ==
    [name \in DOMAIN profile.fields |-> [address |-> profile.fields[name]]]

NoProfileCheck ==
    [ensure_resolved_raises |-> FALSE, required_resolved |-> 0,
     resolved_required_count |-> 0, valid |-> FALSE]

ResolvedInit ==
    /\ bridge = NewBridge
    /\ threads = NoThreads
    /\ scanner = NoScanner
    /\ replay_store = [id \in {} |-> <<>>]
    /\ last_call = Call("init", "", NoSnapshot, "", "")
    /\ engine = NoEngine
    /\ candidate_payload \in
          {[op |-> "profile",
            profile |-> [id |-> "base_profile",
                         fields |-> [current_wave |-> a, gold |-> b, essence |-> c],
                         required_combat_fields |-> REQUIRED_MEMORY_FIELDS,
                         required_admin |-> FALSE],
            result |-> NoProfileCheck] :
              a \in ProfileAddresses, b \in ProfileAddresses, c \in ProfileAddresses}

\* The checks the bridge and the calibration layer run on one and the same
\* set of field addresses: ensure_resolved and _field_coverage on the
\* profile, _candidate_quality on a candidate carrying the addresses.
CheckProfile ==
    /\ candidate_payload.op = "profile"
    /\ candidate_payload' =
          [candidate_payload EXCEPT
              !.op = "checked",
              !.result =
                  LET profile == candidate_payload.profile
                      quality == _candidate_quality(CandidateFieldsOf(profile),
                                                    profile.required_combat_fields,
                                                    [fields |-> CandidateFieldsOf(profile)])
                  IN  [ensure_resolved_raises |-> EnsureResolvedRaises(profile),
                       required_resolved |->
                           _field_coverage(profile, profile.required_combat_fields)
                               .required_resolved,
                       resolved_required_count |-> quality.resolved_required_count,
                       valid |-> quality.valid]]
    /\ UNCHANGED <<bridge, replay_store, last_call, engine, scanner, threads>>

ResolvedNext == CheckProfile

SpecResolved == ResolvedInit /\ [][ResolvedNext]_vars

\* C21: a field is resolved iff its address is non-zero and no placeholder
\* sentinel, and this one predicate decides the bridge's profile checks and
\* the calibration layer's alike: on the same addresses ensure_resolved
\* passes exactly when the candidate is valid, and the coverage counts as
\* many resolved required fields as the candidate quality does.
C21_OneResolvedPredicate ==
    candidate_payload.op = "checked" =>
        /\ \A name \in DOMAIN candidate_payload.profile.fields :
              resolved(candidate_payload.profile.fields[name])
                  <=> (/\ candidate_payload.profile.fields[name] # 0
                       /\ candidate_payload.profile.fields[name]
                             \notin {57005, 48879, 195948557})
        /\ candidate_payload.result.ensure_resolved_raises
              <=> ~candidate_payload.result.valid
        /\ candidate_payload.result.required_resolved
              = candidate_payload.result.resolved_required_count



(* ------------------------------- memory scan ------------------------------- *)

\* The number of bytes of the scanned process memory and the largest chunk
\* size of a scan.
MemSize == 10

MaxChunkBytes == 5

\* _value_width
_value_width(value_type) == IF value_type = "uint64" THEN 8 ELSE 4

\* struct.unpack("<i", raw) on four bytes below 128, where the sign bit is
\* never set.
DecodeInt32(raw) ==
    raw[1] + 256 * raw[2] + 65536 * raw[3] + 16777216 * raw[4]

\* _decode_value: a value as its low and high 32-bit halves, the high half of
\* an int32 being 0.
_decode_value(raw, value_type) ==
    IF value_type = "uint64"
    THEN <<DecodeInt32(SubSeq(raw, 1, 4)), DecodeInt32(SubSeq(raw, 5, 8))>>
    ELSE <<DecodeInt32(raw), 0>>

\* backend.read_memory(handle, address, size) on a process whose memory is
\* the byte array memory.
read_memory(memory, address, size) ==
    [i \in 1..size |-> memory[address + i - 1]]

\* The read raises MemoryReadError: it touches an unreadable byte.
ReadRaises(unreadable, address, size) ==
    \E a \in unreadable : address <= a /\ a < address + size

\* Python's a % b for b > 0.
PyMod(a, b) == ((a % b) + b) % b

\* start_offset of scan_for_value: the first offset of the payload whose
\* address is a multiple of step.
StartOffset(payload_address, step) == PyMod(-payload_address, step)

\* The inner loop of scan_for_value: the addresses of the matches in the
\* payload from offset on, in ascending order.
RECURSIVE PayloadMatches(_, _, _, _, _, _)
PayloadMatches(payload, payload_address, offset, step, value_type, target) ==
    IF offset > Len(payload) - _value_width(value_type) THEN <<>>
    ELSE (IF _decode_value(SubSeq(payload, offset + 1,
                                  offset + _value_width(value_type)),
                           value_type) = target
          THEN <<payload_address + offset>> ELSE <<>>)
         \o PayloadMatches(payload, payload_address, offset + step, step,
                           value_type, target)

\* A carry that is dropped after every chunk.
CarryNothing(payload, value_type) == <<>>

\* carry of scan_for_value after a chunk: the last width - 1 bytes of the
\* payload, or all of it when it is shorter.
Carry(payload, value_type) ==
    LET carry_size == Max2(0, _value_width(value_type) - 1)
    IN  IF Len(payload) >= carry_size /\ carry_size > 0
        THEN SubSeq(payload, Len(payload) - carry_size + 1, Len(payload))
        ELSE payload

\* The scan of scan_for_value at the start of the region with the given
\* index; past the last region the loop over the regions is over.
AtRegion(scan, index) ==
    [scan EXCEPT
        !.region_index = index,
        !.regions_scanned =
            IF index <= Len(scan.regions) THEN @ + 1 ELSE @,
        !.cursor = IF index <= Len(scan.regions) THEN scan.regions[index][1] ELSE 0,
        !.carry = <<>>,
        !.carry_addr = IF index <= Len(scan.regions) THEN scan.regions[index][1] ELSE 0]

\* scan_for_value before its first chunk.
ScanStart(memory, unreadable, regions, value_type, target, step, chunk_bytes, max_results) ==
    AtRegion([op |-> "scanning", memory |-> memory, unreadable |-> unreadable,
              regions |-> regions, value_type |-> value_type, target |-> target,
              step |-> step, chunk_bytes |-> chunk_bytes,
              max_results |-> max_results,
              region_index |-> 0, regions_scanned |-> 0, cursor |-> 0,
              carry |-> <<>>, carry_addr |-> 0,
              candidates |-> <<>>, read_errors |-> 0, bytes_scanned |-> 0,
              max_results_hit |-> 0], 1)

\* The scan after the chunk at the cursor: past the end of the region the
\* next region starts.
AfterChunk(scan, size) ==
    LET region_end == scan.regions[scan.region_index][1]
                          + scan.regions[scan.region_index][2]
    IN  IF scan.cursor + size < region_end
        THEN [scan EXCEPT !.cursor = @ + size]
        ELSE AtRegion(scan, scan.region_index + 1)

\* One iteration of the chunk loop of scan_for_value.
ScanChunkOf(scan) ==
    LET region_end == scan.regions[scan.region_index][1]
                          + scan.regions[scan.region_index][2]
        size == Min2(scan.chunk_bytes, region_end - scan.cursor)
    IN  IF ReadRaises(scan.unreadable, scan.cursor, size)
        THEN AfterChunk([scan EXCEPT !.read_errors = @ + 1,
                                     !.carry = <<>>,
                                     !.carry_addr = scan.cursor + size], size)
        ELSE
        LET chunk == read_memory(scan.memory, scan.cursor, size)
            payload == IF Len(scan.carry) > 0 THEN scan.carry \o chunk ELSE chunk
            payload_address == IF Len(scan.carry) > 0 THEN scan.carry_addr
                               ELSE scan.cursor
            matches == PayloadMatches(payload, payload_address,
                                      StartOffset(payload_address, scan.step),
                                      scan.step, scan.value_type, scan.target)
            room == scan.max_results - Len(scan.candidates)
        IN  IF scan.max_results > 0 /\ Len(matches) >= room
            THEN [scan EXCEPT !.op = "returned",
                              !.bytes_scanned = @ + size,
                              !.candidates = @ \o SubSeq(matches, 1, room),
                              !.max_results_hit = 1]
            ELSE AfterChunk(
                     [scan EXCEPT
                         !.bytes_scanned = @ + size,
                         !.candidates = @ \o matches,
                         !.carry = Carry(payload, scan.value_type),
                         !.carry_addr =
                             payload_address + Len(payload)
                                 - Len(Carry(payload, scan.value_type))],
                     size)

\* The memories of the scanned process: bytes 0 and 1, at most two of them 1.
ScanMemories ==
    {[a \in 0..(MemSize - 1) |-> IF a \in ones THEN 1 ELSE 0] :
        ones \in {s \in SUBSET (0..(MemSize - 1)) : Cardinality(s) <= 2}}

\* The readable regions iter_readable_regions yields, in ascending order: the
\* whole memory; two adjacent regions; a region shorter than a value, a gap
\* and a second region.
ScanRegions ==
    {<< <<0, MemSize>> >>,
     << <<1, 4>>, <<5, MemSize - 5>> >>,
     << <<0, 3>>, <<4, MemSize - 4>> >>}

\* Value type and target of a scan.
ScanTargets ==
    {<<"int32", <<0, 0>> >>, <<"int32", <<1, 0>> >>, <<"int32", <<257, 0>> >>,
     <<"uint64", <<0, 0>> >>, <<"uint64", <<1, 0>> >>, <<"uint64", <<256, 1>> >>}

\* max_results and the unreadable bytes of a scan.
ScanLimits == {<<0, {}>>, <<2, {}>>, <<0, {MemSize - 3}>>}

ScanInit ==
    /\ bridge = NewBridge
    /\ threads = NoThreads
    /\ replay_store = [id \in {} |-> <<>>]
    /\ last_call = Call("init", "", NoSnapshot, "", "")
    /\ engine = NoEngine
    /\ candidate_payload = NoCalibration
    /\ scanner \in
          {ScanStart(memory, limits[2], regions, typed[1], typed[2], step,
                     chunk_bytes, limits[1]) :
              memory \in ScanMemories, regions \in ScanRegions,
              typed \in ScanTargets, step \in {1, 2, 4},
              chunk_bytes \in 1..MaxChunkBytes, limits \in ScanLimits}

\* scan_for_value reads and searches the next chunk.
ScanChunk ==
    /\ scanner.op = "scanning"
    /\ scanner.region_index <= Len(scanner.regions)
    /\ scanner' = ScanChunkOf(scanner)
    /\ UNCHANGED <<bridge, replay_store, last_call, engine, candidate_payload, threads>>

\* scan_for_value returns after the last region.
ScanReturns ==
    /\ scanner.op = "scanning"
    /\ scanner.region_index > Len(scanner.regions)
    /\ scanner' = [scanner EXCEPT !.op = "returned"]
    /\ UNCHANGED <<bridge, replay_store, last_call, engine, candidate_payload, threads>>

ScanNext == ScanChunk \/ ScanReturns

SpecScan == ScanInit /\ [][ScanNext]_vars

\* The little-endian value of width bytes at an address, as its two 32-bit
\* halves.
ValueAt(memory, address, width) ==
    LET Half(a) == memory[a] + 256 * memory[a + 1] + 65536 * memory[a + 2]
                       + 16777216 * memory[a + 3]
    IN  IF width = 8 THEN <<Half(address), Half(address + 4)>> ELSE <<Half(address), 0>>

\* The stride-aligned addresses whose value lies inside one readable region
\* and equals the target.
AlignedOccurrences(scan) ==
    LET width == IF scan.value_type = "uint64" THEN 8 ELSE 4
    IN  {a \in 0..(MemSize - 1) :
            /\ a % scan.step = 0
            /\ \E i \in 1..Len(scan.regions) :
                  /\ scan.regions[i][1] <= a
                  /\ a + width <= scan.regions[i][1] + scan.regions[i][2]
            /\ ValueAt(scan.memory, a, width) = scan.target}

\* C22: a scan that returned without read errors and without reaching
\* max_results reports exactly the stride-aligned addresses inside the
\* readable regions whose value is the target, each once and in ascending
\* order, whatever the chunk size, the stride and the value width are.
C22_ScanFindsEveryAlignedOccurrence ==
    (/\ scanner.op = "returned"
     /\ scanner.read_errors = 0
     /\ scanner.max_results_hit = 0) =>
        /\ SeqRange(scanner.candidates) = AlignedOccurrences(scanner)
        /\ \A i, j \in 1..Len(scanner.candidates) :
              i < j => scanner.candidates[i] < scanner.candidates[j]

\* A scan with chunks shorter than the value returned two matches, one of
\* them at an address that is no multiple of the chunk size, so that its
\* bytes lie in different chunks.
C22_Witness ==
    /\ scanner.op = "returned"
    /\ scanner.read_errors = 0
    /\ scanner.max_results_hit = 0
    /\ scanner.chunk_bytes = 3
    /\ scanner.step = 2
    /\ scanner.target = <<1, 0>>
    /\ scanner.value_type = "int32"
    /\ Len(scanner.regions) = 1
    /\ Len(scanner.candidates) = 2
    /\ \E i \in 1..2 : scanner.candidates[i] % 3 # 0



\* ------------------------------------------------------------------------
\* cmd_narrow: one narrow pass over the records of an earlier snapshot.

MaxRecords == 3

\* _eq for the integer value types.
_eq(a, b) == a = b

\* _keep_candidate for the integer value types; expected_value and
\* expected_delta are None or Some(n). "raise" is the ValueError of a mode
\* that lacks its argument.
_keep_candidate(mode, previous, current, expected_value, expected_delta) ==
    LET ok ==
            CASE mode = "unchanged" -> _eq(current, previous)
              [] mode = "changed" -> ~_eq(current, previous)
              [] mode = "increased" -> current > previous
              [] mode = "decreased" -> current < previous
              [] mode = "delta" -> current - previous = expected_delta[1]
              [] OTHER -> FALSE
    IN  IF mode = "equal"
        THEN IF expected_value = None THEN "raise"
             ELSE IF _eq(current, expected_value[1]) THEN "keep" ELSE "reject"
        ELSE IF mode = "delta" /\ expected_delta = None THEN "raise"
        ELSE IF ~ok THEN "reject"
        ELSE IF expected_value = None THEN "keep"
        ELSE IF _eq(current, expected_value[1]) THEN "keep" ELSE "reject"

\* A narrow pass that puts each kept record in front of the earlier ones.
KeptPrepend(kept, record) == <<record>> \o kept

\* kept.append(Candidate(address, current)).
KeptAppend(kept, record) == Append(kept, record)

\* scanner.read_value(address, "int32") on the attached process.
read_value(scan, address) ==
    _decode_value(read_memory(scan.memory, address, _value_width("int32")), "int32")[1]

\* cmd_narrow up to its loop, before attach().
NarrowStart(memory, unreadable, process_found, source, mode, expected_value,
            expected_delta) ==
    [op |-> "attaching", memory |-> memory, unreadable |-> unreadable,
     process_found |-> process_found, source |-> source, mode |-> mode,
     expected_value |-> expected_value, expected_delta |-> expected_delta,
     index |-> 1, kept |-> <<>>, read_errors |-> 0, records_out |-> <<>>,
     records_count |-> 0, source_candidates |-> 0, exit_code |-> -1]

\* One iteration of the loop of cmd_narrow over the source records.
NarrowItemOf(scan) ==
    LET item == scan.source[scan.index]
        current == read_value(scan, item[1])
        verdict == _keep_candidate(scan.mode, item[2], current,
                                   scan.expected_value, scan.expected_delta)
    IN  IF ReadRaises(scan.unreadable, item[1], _value_width("int32"))
        THEN [scan EXCEPT !.read_errors = @ + 1, !.index = @ + 1]
        ELSE IF verdict = "raise"
        THEN [scan EXCEPT !.op = "raised"]
        ELSE IF verdict = "keep"
        THEN [scan EXCEPT !.kept = KeptAppend(@, <<item[1], current>>),
                          !.index = @ + 1]
        ELSE [scan EXCEPT !.index = @ + 1]

\* The integer records of a source snapshot: addresses 0 and 4, previous
\* values 0 and 1.
SourceRecords == {<<address, value>> : address \in {0, 4}, value \in {0, 1}}

SourceSnapshots ==
    UNION {[1..n -> SourceRecords] : n \in 0..MaxRecords}

\* The memories of the narrowed process: the values at 0 and 4 are 0 or 1.
NarrowMemories ==
    {[a \in 0..(MemSize - 1) |-> IF a \in ones THEN 1 ELSE 0] :
        ones \in SUBSET {0, 4}}

\* --mode, --value and --delta of a narrow pass.
NarrowCriteria ==
    {<<mode, expected_value, expected_delta>> :
        mode \in {"equal", "unchanged", "changed", "increased", "decreased", "delta"},
        expected_value \in {None, Some(1)},
        expected_delta \in {None, Some(1)}}

NarrowInit ==
    /\ bridge = NewBridge
    /\ threads = NoThreads
    /\ replay_store = [id \in {} |-> <<>>]
    /\ last_call = Call("init", "", NoSnapshot, "", "")
    /\ engine = NoEngine
    /\ candidate_payload = NoCalibration
    /\ scanner \in
          {NarrowStart(memory, unreadable, process_found, source, criteria[1],
                       criteria[2], criteria[3]) :
              memory \in NarrowMemories, unreadable \in {{}, {5}},
              process_found \in BOOLEAN, source \in SourceSnapshots,
              criteria \in NarrowCriteria}

\* scanner.attach(): cmd_narrow returns 2 when the process is not found.
NarrowAttach ==
    /\ scanner.op = "attaching"
    /\ scanner' = IF scanner.process_found
                  THEN [scanner EXCEPT !.op = "narrowing"]
                  ELSE [scanner EXCEPT !.op = "attach_failed", !.exit_code = 2]
    /\ UNCHANGED <<bridge, replay_store, last_call, engine, candidate_payload, threads>>

\* The loop of cmd_narrow handles the next source record.
NarrowItem ==
    /\ scanner.op = "narrowing"
    /\ scanner.index <= Len(scanner.source)
    /\ scanner' = NarrowItemOf(scanner)
    /\ UNCHANGED <<bridge, replay_store, last_call, engine, candidate_payload, threads>>

\* After the loop cmd_narrow writes the kept records and the stats.
NarrowWrites ==
    /\ scanner.op = "narrowing"
    /\ scanner.index > Len(scanner.source)
    /\ scanner' = [scanner EXCEPT !.op = "written",
                                  !.records_out = scanner.kept,
                                  !.records_count = Len(scanner.kept),
                                  !.source_candidates = Len(scanner.source),
                                  !.exit_code = 0]
    /\ UNCHANGED <<bridge, replay_store, last_call, engine, candidate_payload, threads>>

NarrowNext == NarrowAttach \/ NarrowItem \/ NarrowWrites

SpecNarrow == NarrowInit /\ [][NarrowNext]_vars

RECURSIVE IsSubsequence(_, _)
IsSubsequence(a, b) ==
    IF a = <<>> THEN TRUE
    ELSE IF b = <<>> THEN FALSE
    ELSE IF Head(a) = Head(b) THEN IsSubsequence(Tail(a), Tail(b))
    ELSE IsSubsequence(a, Tail(b))

Addresses(records) == [i \in 1..Len(records) |-> records[i][1]]

\* The source records before position `upto` whose read fails.
FailedReads(scan, upto) ==
    {i \in 1..(upto - 1) : ReadRaises(scan.unreadable, scan.source[i][1], 4)}

\* The source records before position `upto` that are read and rejected by
\* the predicate.
RejectedByPredicate(scan, upto) ==
    {i \in 1..(upto - 1) :
        /\ ~ReadRaises(scan.unreadable, scan.source[i][1], 4)
        /\ _keep_candidate(scan.mode, scan.source[i][2],
                           ValueAt(scan.memory, scan.source[i][1], 4)[1],
                           scan.expected_value, scan.expected_delta) = "reject"}

\* C23: in every narrow pass the kept records are an order-preserving
\* subsequence of the source records' addresses, each with the value read
\* now; a record whose read fails is dropped and counted; kept, rejected and
\* failed records add up to the records handled so far, and in the written
\* snapshot to the number of source records.
C23_NarrowKeepsSubsequenceAndCounts ==
    scanner.op \in {"narrowing", "written"} =>
        /\ IsSubsequence(Addresses(scanner.kept),
                         Addresses(SubSeq(scanner.source, 1, scanner.index - 1)))
        /\ \A i \in 1..Len(scanner.kept) :
              scanner.kept[i][2] = ValueAt(scanner.memory, scanner.kept[i][1], 4)[1]
        /\ scanner.read_errors = Cardinality(FailedReads(scanner, scanner.index))
        /\ Len(scanner.kept)
             + Cardinality(RejectedByPredicate(scanner, scanner.index))
             + scanner.read_errors = scanner.index - 1
        /\ scanner.op = "written" =>
              /\ scanner.records_out = scanner.kept
              /\ scanner.source_candidates = Len(scanner.source)
              /\ scanner.records_count
                   + Cardinality(RejectedByPredicate(scanner, Len(scanner.source) + 1))
                   + scanner.read_errors = scanner.source_candidates

\* A written pass that kept one record, rejected one and failed to read one.
C23_Witness ==
    /\ scanner.op = "written"
    /\ scanner.records_count = 1
    /\ scanner.read_errors = 1
    /\ Len(scanner.source) = 3
    /\ scanner.source[1][1] = 4
    /\ scanner.mode = "increased"



\* ------------------------------------------------------------------------
\* autoconnect(): the candidate attempt order and the attempts made in it.

\* The ids of calibration_candidate_ids(calibration_payload), in payload
\* order.
calibration_candidate_ids(calibration_payload) ==
    [index \in 1..Len(calibration_payload.candidates) |->
        CandidateEntryId(calibration_payload.candidates[index], index)]

\* candidate_attempt_order after the selected candidate: every further id,
\* stripped, that is not blank and not yet in the order.
RECURSIVE AppendMissingIds(_, _, _)
AppendMissingIds(order, candidate_ids, index) ==
    IF index > Len(candidate_ids) THEN order
    ELSE LET candidate_id_value == Strip(candidate_ids[index])
         IN  AppendMissingIds(
                 IF candidate_id_value # "" /\ candidate_id_value \notin SeqRange(order)
                 THEN Append(order, candidate_id_value) ELSE order,
                 candidate_ids, index + 1)

\* The start of autoconnect() up to the loop over candidate_attempt_order.
\* The calibration payload fails to load, or its entries are rejected, with
\* MemoryProfileError, which propagates when a path or a candidate was asked
\* for.
AutoconnectOrder(a) ==
    LET raises == ~a.payload_loads \/ IterCandidateEntriesRaises(a.calibration_payload)
        requested_candidate == Strip(a.calibration_candidate_id)
        explicit_calibration_request == a.path_given \/ requested_candidate # ""
    IN  IF raises
        THEN IF explicit_calibration_request
             THEN [a EXCEPT !.op = "raised"]
             ELSE [a EXCEPT !.op = "attempting",
                            !.candidate_attempt_order = <<"">>]
        ELSE CHOOSE out \in
                 {[a EXCEPT !.op = "attempting",
                            !.payload_usable = TRUE,
                            !.selected_candidate_id = selected_candidate_id,
                            !.candidate_attempt_order =
                                AppendMissingIds(
                                    IF selected_candidate_id # ""
                                    THEN <<selected_candidate_id>> ELSE <<>>,
                                    calibration_candidate_ids(a.calibration_payload), 1)] :
                     selected_candidate_id \in
                         {choose_calibration_candidate_id(a.calibration_payload,
                                                          requested_candidate)}} : TRUE

\* The candidate connect() selects when it is asked for attempt_candidate_id:
\* the outcome of choose_calibration_candidate_id on the payload, "" when
\* connect() loads no payload.
ConnectSelectedCandidate(a, attempt_candidate_id) ==
    IF a.payload_usable
    THEN choose_calibration_candidate_id(a.calibration_payload, attempt_candidate_id)
    ELSE ""

\* One pass of the loop of autoconnect(): connect() with the next candidate
\* id of the order, the attempts[] entry, the break on memory mode and, after
\* the last pass, the result.  apply_ok tells whether
\* apply_calibration_candidate accepts the selected candidate, outcome is the
\* mode connect() ends in when it does, or "raise" when connect() raises
\* CatalogError, which ends autoconnect() without a result.
AutoconnectAttemptOf(a, apply_ok, outcome) ==
    IF outcome = "raise"
    THEN [a EXCEPT !.op = "raised", !.connect_calls = @ + 1]
    ELSE CHOOSE out \in
        {LET attempt_candidate_id == a.candidate_attempt_order[a.index]
             calibration_candidate == IF a.payload_usable /\ apply_ok THEN selected ELSE ""
             mode == IF a.payload_usable /\ ~apply_ok THEN "degraded" ELSE outcome
             attempts ==
                 Append(a.attempts,
                        [index |-> a.index, candidate_id |-> attempt_candidate_id,
                         selected_candidate_id |->
                             IF Strip(calibration_candidate) # ""
                             THEN Strip(calibration_candidate)
                             ELSE Strip(attempt_candidate_id),
                         mode |-> mode])
             stops == mode = "memory" \/ a.index = Len(a.candidate_attempt_order)
         IN  [a EXCEPT
                 !.connect_calls = @ + 1,
                 !.connect_selected = Append(@, selected),
                 !.attempts = attempts,
                 !.index = @ + 1,
                 !.fallback_used =
                     IF stops
                     THEN (mode = "memory" /\ a.index > 1) \/ Len(attempts) > 1
                     ELSE FALSE,
                 !.op = IF stops THEN "returned" ELSE "attempting"] :
            selected \in
                {ConnectSelectedCandidate(a, a.candidate_attempt_order[a.index])}} : TRUE

\* The candidate bodies of the payloads autoconnect() is explored on: every
\* required field resolved, one required field unresolved, every required
\* field resolved with a stable probe.
AutoconnectBodies ==
    {[fields |-> CandidateFieldsFull],
     [fields |-> CandidateFieldsPartial],
     [fields |-> CandidateFieldsFull,
      stability |-> [snapshot_probe_count |-> 4, snapshot_ok_count |-> 4,
                     snapshot_total_count |-> 4]]}

AutoconnectPayloads ==
    {[candidates |-> [index \in 1..n |-> WithId(bodies[index], RawCandidateId(index))],
      active_candidate_id |-> active] :
        n \in 1..MaxCandidates, bodies \in [1..MaxCandidates -> AutoconnectBodies],
        active \in {"", " cand_b "}}
    \cup {[candidates |-> <<>>]}

\* autoconnect() before its first statement.
AutoconnectStart(calibration_payload, payload_loads, path_given,
                 calibration_candidate_id) ==
    [op |-> "autoconnect", calibration_payload |-> calibration_payload,
     payload_loads |-> payload_loads, path_given |-> path_given,
     calibration_candidate_id |-> calibration_candidate_id,
     payload_usable |-> FALSE, selected_candidate_id |-> "",
     candidate_attempt_order |-> <<>>, index |-> 1, attempts |-> <<>>,
     connect_selected |-> <<>>, connect_calls |-> 0, fallback_used |-> FALSE]

AutoconnectOrderInit ==
    /\ bridge = NewBridge
    /\ threads = NoThreads
    /\ scanner = NoScanner
    /\ replay_store = [id \in {} |-> <<>>]
    /\ last_call = Call("init", "", NoSnapshot, "", "")
    /\ engine = NoEngine
    /\ candidate_payload \in
          {AutoconnectStart(payload, TRUE, path_given, requested) :
              payload \in AutoconnectPayloads, path_given \in BOOLEAN,
              requested \in {"", " cand_b ", "cand_x"}}
          \cup {AutoconnectStart([candidates |-> <<>>], FALSE, path_given, "") :
                   path_given \in BOOLEAN}

\* autoconnect() builds the attempt order.
AutoconnectBegins ==
    /\ candidate_payload.op = "autoconnect"
    /\ candidate_payload' = AutoconnectOrder(candidate_payload)
    /\ UNCHANGED <<bridge, replay_store, last_call, engine, scanner, threads>>

\* autoconnect() makes its next connect() attempt.
AutoconnectAttempts ==
    /\ candidate_payload.op = "attempting"
    /\ \E apply_ok \in BOOLEAN, outcome \in {"memory", "degraded", "replay", "raise"} :
          candidate_payload' =
              AutoconnectAttemptOf(candidate_payload, apply_ok, outcome)
    /\ UNCHANGED <<bridge, replay_store, last_call, engine, scanner, threads>>

AutoconnectOrderNext == AutoconnectBegins \/ AutoconnectAttempts

SpecAutoconnectOrder == AutoconnectOrderInit /\ [][AutoconnectOrderNext]_vars

\* The attempt order the claim describes: the recommended candidate, then
\* the remaining ids in payload order.
RecommendedThenPayloadOrder(a) ==
    LET ids == calibration_candidate_ids(a.calibration_payload)
        recommended == a.selected_candidate_id
        rest == SelectSeq(ids, LAMBDA id : id # recommended)
    IN  <<recommended>> \o rest

NoIdTwice(order) ==
    \A i, j \in 1..Len(order) : i # j => order[i] # order[j]

\* The parts of the claim about the order, the stop, the attempts[] entries
\* and fallback_used.
AttemptsFollowOrder(a) ==
    /\ a.payload_usable =>
          /\ a.candidate_attempt_order = RecommendedThenPayloadOrder(a)
          /\ NoIdTwice(a.candidate_attempt_order)
    /\ Len(a.attempts) = a.connect_calls
    /\ \A k \in 1..Len(a.attempts) :
          /\ a.attempts[k].index = k
          /\ a.attempts[k].candidate_id = a.candidate_attempt_order[k]
          /\ k < Len(a.attempts) => a.attempts[k].mode # "memory"
    /\ a.attempts[Len(a.attempts)].mode # "memory" =>
          Len(a.attempts) = Len(a.candidate_attempt_order)
    /\ a.fallback_used <=> Len(a.attempts) > 1

AutoconnectOrderHolds ==
    candidate_payload.op = "returned" => AttemptsFollowOrder(candidate_payload)

\* C24: autoconnect() tries the candidates in the attempt order (the
\* recommended candidate, then the remaining ids in payload order, no id
\* twice); the k-th connect() connects with the k-th candidate of the order;
\* the loop stops right after the first attempt in memory mode; attempts[]
\* has one entry per connect() call; fallback_used holds iff more than one
\* attempt was made.
C24_KthAttemptConnectsWithKthCandidate ==
    candidate_payload.op = "returned" =>
        /\ AttemptsFollowOrder(candidate_payload)
        /\ candidate_payload.payload_usable =>
              \A k \in 1..Len(candidate_payload.attempts) :
                 candidate_payload.connect_selected[k]
                     = candidate_payload.candidate_attempt_order[k]



\* ------------------------------------------------------------------------
\* Ingest of build actions, rulesets, DoT effects and modifiers.

\* The enumerations of the data model.
ActionTypes ==
    {"build", "sell", "upgrade", "modifier", "targeting", "assign_workers",
     "economy_policy"}

RulesetModels == {"linear_subtract", "multiplicative"}

StackingModes == {"refresh_duration", "add_stacks", "replace_if_stronger"}

ModifierOps == {"add", "mul", "set", "cap_max", "cap_min"}

\* _require raises ModelError: the key is missing.
RequireRaises(payload, key) == key \notin DOMAIN payload

\* BuildAction.from_dict on a payload whose required keys are present.
BuildAction_from_dict(payload) ==
    BuildAction(payload.wave, DictGet(payload, "at_s", 0), payload.type,
                DictGet(payload, "target_id", ""), DictGet(payload, "value", 0),
                DictGet(payload, "payload", EmptyPayload))

\* Ruleset.from_dict: the model flags of the ruleset.
Ruleset_from_dict(payload) ==
    [accuracy_block_model |-> DictGet(payload, "accuracy_block_model", "linear_subtract"),
     armor_penetration_model |->
         DictGet(payload, "armor_penetration_model", "linear_subtract")]

\* DotEffect.from_dict: the stacking attributes of the effect.
DotEffect_from_dict(payload) ==
    [id |-> payload.id, max_stacks |-> DictGet(payload, "max_stacks", 1),
     stacking |-> DictGet(payload, "stacking", "refresh_duration")]

\* Modifier.from_dict raises ModelError: a required key is missing or the op
\* is not one of the modifier ops.
ModifierFromDictRaises(payload) ==
    \/ RequireRaises(payload, "target")
    \/ RequireRaises(payload, "op")
    \/ payload.op \notin ModifierOps
    \/ RequireRaises(payload, "value")

\* Ingest raises ModelError.
IngestRaises(p) ==
    \/ \E i \in 1..Len(p.actions) :
          RequireRaises(p.actions[i], "wave") \/ RequireRaises(p.actions[i], "type")
    \/ RequireRaises(p.dot, "id")
    \/ ModifierFromDictRaises(p.modifier)

\* The block model _hit_chance uses for a ruleset.
HitChanceModel(rules) ==
    IF rules.accuracy_block_model = "multiplicative"
    THEN "multiplicative" ELSE "linear_subtract"

\* The payloads of the sampled actions: every action type of the
\* enumeration but assign_workers and economy_policy on one tower, an
\* unknown type, a blank type, and payloads without a required key.
ActionPayloads ==
    {[wave |-> 1, type |-> type, target_id |-> "arrow_tower"] :
        type \in {"build", " Build", "sell", "upgrade", "teleport", ""}}
    \cup {[wave |-> 1, target_id |-> "arrow_tower"], [type |-> "build"]}

RulesetPayloads ==
    {[key \in {} |-> ""],
     [accuracy_block_model |-> "multiplicative"],
     [accuracy_block_model |-> "quadratic"],
     [armor_penetration_model |-> "percent"]}

DotPayloads ==
    {[id |-> "burn"], [id |-> "burn", stacking |-> "add_stacks"],
     [id |-> "burn", stacking |-> "multiply"], [stacking |-> "add_stacks"]}

ModifierPayloads ==
    {[target |-> "damage", op |-> "mul", value |-> 2],
     [target |-> "damage", op |-> "pow", value |-> 2]}

IngestInit ==
    /\ bridge = NewBridge
    /\ threads = NoThreads
    /\ scanner = NoScanner
    /\ replay_store = [id \in {} |-> <<>>]
    /\ last_call = Call("init", "", NoSnapshot, "", "")
    /\ candidate_payload = NoCalibration
    /\ engine \in
          {[op |-> "payload",
            payload |-> [actions |-> actions, rules |-> rules, dot |-> dot,
                         modifier |-> modifier],
            build |-> BuildPlan_from_dict(
                          [scenario_id |-> "s1", towers |-> <<>>,
                           active_global_modifiers |-> <<>>, actions |-> <<>>]),
            rules |-> Ruleset_from_dict([key \in {} |-> ""]),
            dot |-> DotEffect_from_dict([id |-> ""]),
            runtime |-> RuntimeState(<<>>, <<>>), hit_chance_model |-> ""] :
              actions \in SeqsUpTo(ActionPayloads, 2), rules \in RulesetPayloads,
              dot \in DotPayloads, modifier \in ModifierPayloads}

\* BuildPlan.from_dict and ScenarioDefinition.from_dict on the payload.
Ingest ==
    /\ engine.op = "payload"
    /\ engine' =
          IF IngestRaises(engine.payload)
          THEN [engine EXCEPT !.op = "ModelError"]
          ELSE [engine EXCEPT
                   !.op = "ingested",
                   !.build = BuildPlan_from_dict(
                                 [scenario_id |-> "s1",
                                  towers |-> <<TowerPlan("arrow_tower", 1, 0)>>,
                                  active_global_modifiers |-> <<>>,
                                  actions |->
                                      [i \in 1..Len(engine.payload.actions) |->
                                          BuildAction_from_dict(
                                              engine.payload.actions[i])]]),
                   !.rules = Ruleset_from_dict(engine.payload.rules),
                   !.dot = DotEffect_from_dict(engine.payload.dot)]
    /\ UNCHANGED <<bridge, replay_store, last_call, candidate_payload, scanner, threads>>

\* The simulation of wave 1 on the ingested plan and ruleset.
SimulateIngested ==
    /\ engine.op = "ingested"
    /\ engine' = [engine EXCEPT
                     !.op = "simulated",
                     !.runtime = _runtime_for_wave(engine.build, 1),
                     !.hit_chance_model = HitChanceModel(engine.rules)]
    /\ UNCHANGED <<bridge, replay_store, last_call, candidate_payload, scanner, threads>>

IngestNext == Ingest \/ SimulateIngested

SpecIngest == IngestInit /\ [][IngestNext]_vars

\* C25: a plan or scenario that ingest accepted holds no value outside the
\* enumerations: every action type is one of the seven action types, every
\* ruleset flag one of its two models, the DoT stacking mode one of the three
\* modes; so the simulation never meets an unknown value.
C25_IngestRejectsUnknownEnumValues ==
    engine.op \in {"ingested", "simulated"} =>
        /\ \A i \in 1..Len(engine.build.actions) :
              LowerStrip(engine.build.actions[i].type) \in ActionTypes
        /\ engine.rules.accuracy_block_model \in RulesetModels
        /\ engine.rules.armor_penetration_model \in RulesetModels
        /\ engine.dot.stacking \in StackingModes

\* The unknown action type is ingested and the simulation skips it: the
\* runtime state is that of the plan without the action.
IngestedUnknownActionIsIgnored ==
    /\ engine.op = "simulated"
    /\ Len(engine.build.actions) = 1
    /\ engine.build.actions[1].type = "teleport"
    /\ engine.runtime = _initial_runtime_state(engine.build)



\* C26: after every call on the bridge, returned or raised, mode "memory"
\* implies that the reader handle is open and a memory profile is loaded.
C26_MemoryModeHasOpenReader ==
    bridge.mode = "memory" =>
        /\ bridge.memory_reader.handle # 0
        /\ bridge.memory_profile # NoProfile



\* ------------------------------------------------------------------------
\* connect() and snapshot() on the one LiveBridge of the HTTP handlers, run
\* by two threads of the handler pool, one statement at a time.  The bridge
\* has no lock.  connect() is called with a catalog and a profile that load,
\* without calibration and without a replay session; a failed read is not a
\* transient one.

MaxConnectCalls == 2

MaxSnapshotCalls == 1

\* Two handler threads, both outside a bridge call.  opens counts the handles
\* connect() opened; seen_opens is that count when the running snapshot()
\* tested the mode; closed_fresh_handle records that the failure handling of
\* snapshot() closed a handle opened after that test.
ServingThreads ==
    [op |-> "serving", connect_pc |-> "idle", snapshot_pc |-> "idle",
     connect_calls |-> 0, snapshot_calls |-> 0, opens |-> 0, seen_opens |-> 0,
     closed_fresh_handle |-> FALSE]

ConcurrentInit ==
    /\ bridge = NewBridge
    /\ threads = ServingThreads
    /\ scanner = NoScanner
    /\ replay_store = [id \in {} |-> <<>>]
    /\ last_call = Call("init", "", NoSnapshot, "", "")
    /\ engine = NoEngine
    /\ candidate_payload = NoCalibration

\* A handler thread enters live_bridge.connect().
ConnectEnters ==
    /\ threads.connect_pc = "idle"
    /\ threads.connect_calls < MaxConnectCalls
    /\ threads' = [threads EXCEPT !.connect_pc = "close", !.connect_calls = @ + 1]
    /\ UNCHANGED <<bridge, replay_store, last_call, engine, candidate_payload, scanner>>

\* self.memory_reader.close()
ConnectCloses ==
    /\ threads.connect_pc = "close"
    /\ bridge' = [bridge EXCEPT !.memory_reader = BeginCall(ReaderClose(@))]
    /\ threads' = [threads EXCEPT !.connect_pc = "reset"]
    /\ UNCHANGED <<replay_store, last_call, engine, candidate_payload, scanner>>

\* self._memory_profile = None and the resets that follow.
ConnectResets ==
    /\ threads.connect_pc = "reset"
    /\ bridge' = [bridge EXCEPT !.memory_profile = NoProfile,
                                !.last_memory_values = EmptyDict,
                                !.last_error = ""]
    /\ threads' = [threads EXCEPT !.connect_pc = "profile"]
    /\ UNCHANGED <<replay_store, last_call, engine, candidate_payload, scanner>>

\* self._memory_profile = profile
ConnectLoadsProfile ==
    /\ threads.connect_pc = "profile"
    /\ bridge' = [bridge EXCEPT !.memory_profile = PlainProfile]
    /\ threads' = [threads EXCEPT !.connect_pc = "open"]
    /\ UNCHANGED <<replay_store, last_call, engine, candidate_payload, scanner>>

\* self.memory_reader.open(...): the process is found or not.
ConnectOpens ==
    /\ threads.connect_pc = "open"
    /\ \E found \in BOOLEAN :
          /\ bridge' = [bridge EXCEPT !.memory_reader =
                           BeginCall(ReaderOpen(@, [ok |-> found, err |-> NoError]))]
          /\ threads' = [threads EXCEPT
                            !.connect_pc = IF found THEN "read" ELSE "fail_close",
                            !.opens = IF found THEN @ + 1 ELSE @]
    /\ UNCHANGED <<replay_store, last_call, engine, candidate_payload, scanner>>

\* self.memory_reader.read_fields(profile): it raises when the reader holds
\* no handle or the backend read fails.
ConnectReadsFields ==
    /\ threads.connect_pc = "read"
    /\ \E read_ok \in BOOLEAN :
          threads' = [threads EXCEPT !.connect_pc =
                         IF read_ok /\ bridge.memory_reader.handle # 0
                         THEN "set_connected" ELSE "fail_close"]
    /\ UNCHANGED <<bridge, replay_store, last_call, engine, candidate_payload, scanner>>

\* except MemoryReaderError: self.memory_reader.close()
ConnectFailCloses ==
    /\ threads.connect_pc = "fail_close"
    /\ bridge' = [bridge EXCEPT !.memory_reader = BeginCall(ReaderClose(@)),
                                !.connect_failures_total = 1]
    /\ threads' = [threads EXCEPT !.connect_pc = "fail_flags"]
    /\ UNCHANGED <<replay_store, last_call, engine, candidate_payload, scanner>>

\* self.connected = False; self.mode = "degraded"; connect() returns.
ConnectFailFlags ==
    /\ threads.connect_pc = "fail_flags"
    /\ bridge' = [bridge EXCEPT !.connected = FALSE, !.mode = "degraded",
                                !.last_reason = "memory_connect_failed:",
                                !.last_error = "connect_memory_open"]
    /\ threads' = [threads EXCEPT !.connect_pc = "idle"]
    /\ UNCHANGED <<replay_store, last_call, engine, candidate_payload, scanner>>

\* self.connected = True
ConnectSetsConnected ==
    /\ threads.connect_pc = "set_connected"
    /\ bridge' = [bridge EXCEPT !.connected = TRUE]
    /\ threads' = [threads EXCEPT !.connect_pc = "set_mode"]
    /\ UNCHANGED <<replay_store, last_call, engine, candidate_payload, scanner>>

\* self.mode = "memory"; connect() returns.
ConnectSetsMode ==
    /\ threads.connect_pc = "set_mode"
    /\ bridge' = [bridge EXCEPT !.mode = "memory", !.last_reason = "ok",
                                !.last_error = ""]
    /\ threads' = [threads EXCEPT !.connect_pc = "idle"]
    /\ UNCHANGED <<replay_store, last_call, engine, candidate_payload, scanner>>

\* A handler thread enters live_bridge.snapshot().
SnapshotEnters ==
    /\ threads.snapshot_pc = "idle"
    /\ threads.snapshot_calls < MaxSnapshotCalls
    /\ threads' = [threads EXCEPT !.snapshot_pc = "check", !.snapshot_calls = @ + 1]
    /\ UNCHANGED <<bridge, replay_store, last_call, engine, candidate_payload, scanner>>

\* if self.mode == "memory" and self.connected and self._memory_profile is
\* not None; otherwise snapshot() returns a synthetic snapshot.
SnapshotChecks ==
    /\ threads.snapshot_pc = "check"
    /\ threads' = [threads EXCEPT
                      !.snapshot_pc =
                          IF /\ bridge.mode = "memory"
                             /\ bridge.connected
                             /\ bridge.memory_profile # NoProfile
                          THEN "read" ELSE "idle",
                      !.seen_opens = threads.opens]
    /\ UNCHANGED <<bridge, replay_store, last_call, engine, candidate_payload, scanner>>

\* self.memory_reader.read_fields(self._memory_profile): on success
\* snapshot() returns; it raises MemoryReaderError when the reader holds no
\* handle or the backend read fails; with the profile reset to None meanwhile
\* the call ends in an error that snapshot() does not handle.
SnapshotReadsFields ==
    /\ threads.snapshot_pc = "read"
    /\ \E read_ok \in BOOLEAN :
          threads' = [threads EXCEPT !.snapshot_pc =
                         IF bridge.memory_profile = NoProfile THEN "idle"
                         ELSE IF read_ok /\ bridge.memory_reader.handle # 0
                         THEN "idle" ELSE "fail_close"]
    /\ bridge' = IF bridge.memory_profile # NoProfile
                    /\ bridge.memory_reader.handle = 0
                 THEN [bridge EXCEPT !.snapshot_failures_total = 1]
                 ELSE bridge
    /\ UNCHANGED <<replay_store, last_call, engine, candidate_payload, scanner>>

\* except MemoryReaderError: self.memory_reader.close()
SnapshotFailCloses ==
    /\ threads.snapshot_pc = "fail_close"
    /\ bridge' = [bridge EXCEPT !.memory_reader = BeginCall(ReaderClose(@))]
    /\ threads' = [threads EXCEPT
                      !.snapshot_pc = "fail_connected",
                      !.closed_fresh_handle =
                          @ \/ (/\ bridge.memory_reader.handle # 0
                                /\ threads.opens # threads.seen_opens)]
    /\ UNCHANGED <<replay_store, last_call, engine, candidate_payload, scanner>>

\* self.connected = False
SnapshotFailConnected ==
    /\ threads.snapshot_pc = "fail_connected"
    /\ bridge' = [bridge EXCEPT !.connected = FALSE]
    /\ threads' = [threads EXCEPT !.snapshot_pc = "fail_mode"]
    /\ UNCHANGED <<replay_store, last_call, engine, candidate_payload, scanner>>

\* self.mode = "degraded"; snapshot() returns a synthetic snapshot.
SnapshotFailMode ==
    /\ threads.snapshot_pc = "fail_mode"
    /\ bridge' = [bridge EXCEPT !.mode = "degraded",
                                !.last_reason = "memory_snapshot_failed:",
                                !.last_error = "snapshot_memory_read"]
    /\ threads' = [threads EXCEPT !.snapshot_pc = "idle"]
    /\ UNCHANGED <<replay_store, last_call, engine, candidate_payload, scanner>>

ConcurrentNext ==
    \/ ConnectEnters \/ ConnectCloses \/ ConnectResets \/ ConnectLoadsProfile
    \/ ConnectOpens \/ ConnectReadsFields \/ ConnectFailCloses \/ ConnectFailFlags
    \/ ConnectSetsConnected \/ ConnectSetsMode
    \/ SnapshotEnters \/ SnapshotChecks \/ SnapshotReadsFields \/ SnapshotFailCloses
    \/ SnapshotFailConnected \/ SnapshotFailMode

SpecConcurrent == ConcurrentInit /\ [][ConcurrentNext]_vars

\* C27: for every interleaving of a connect() and a snapshot() on the shared
\* bridge, once both have returned, mode "memory" implies an open reader
\* handle, and the failure handling of the snapshot() has not closed a handle
\* that connect() opened after the snapshot() tested the mode.
C27_InterleavedCallsKeepMemoryModeConsistent ==
    (threads.op = "serving" /\ threads.connect_pc = "idle"
        /\ threads.snapshot_pc = "idle") =>
        /\ bridge.mode = "memory" => bridge.memory_reader.handle # 0
        /\ ~threads.closed_fresh_handle




(* --------------------------- C28, C29, C30 ---------------------------- *)

\* (time, serial) of event e lies before that of event f.
EventBefore(e, f) ==
    e.at_s < f.at_s \/ (e.at_s = f.at_s /\ e.serial < f.serial)

\* The running simulation of a combat-mode or monte_carlo wave.
SimulationRuns == engine.op = "timeline" /\ engine.simulating /\ engine.sim.running

\* C28: the event a pass of the loop takes off the queue lies, in
\* (time, serial) order, before every event left or scheduled by the pass, so
\* events are processed in ascending (time, serial) order and events of equal
\* time in the order they were scheduled; the serials of the queued events
\* are distinct and below the next serial, and every event scheduled by the
\* pass gets a serial not used before; the clock never decreases.
C28_EventsInTimeSerialOrder ==
    [][(SimulationRuns /\ engine'.simulating /\ engine.sim.events # {}
           /\ engine'.samples = engine.samples) =>
          LET sim == engine.sim
              after == engine'.sim
              taken == sim.events \ after.events
              scheduled == after.events \ sim.events
          IN /\ Cardinality(taken) = 1
             /\ \A e \in taken :
                   /\ \A f \in (sim.events \cup after.events) \ {e} : EventBefore(e, f)
                   /\ after.running => after.now = e.at_s
             /\ after.now >= sim.now
             /\ \A f \in scheduled :
                   /\ f.serial >= sim.serial
                   /\ f.at_s >= after.now
             /\ \A f, g \in after.events : f # g => f.serial # g.serial
             /\ \A f \in after.events : f.serial < after.serial
             /\ after.serial = sim.serial + Cardinality(scheduled)]_vars

\* Two towers and a DoT: a tower attack and a dot tick of the same time wait
\* in the queue after the clock has advanced.
C28_Witness ==
    /\ SimulationRuns
    /\ engine.sim.now > 0
    /\ \E e, f \in engine.sim.events :
          /\ e.at_s = f.at_s
          /\ e.type = "tower_attack"
          /\ f.type = "dot_tick"
          /\ e.serial > f.serial

\* C29: at every moment of a combat-mode wave, the DoT states of one effect
\* id registered on one enemy number at most max(1, max_stacks).
C29_DotStacksWithinCap ==
    (engine.op = "timeline" /\ engine.simulating) =>
        \A i \in 1..Len(engine.sim.enemies) :
            \A k \in 1..Len(engine.scenario.tower.dot_effects) :
                LET dot == engine.scenario.tower.dot_effects[k]
                IN  Cardinality({d \in engine.sim.enemies[i].dots :
                                    d.effect_id = dot.id})
                        <= Max2(1, dot.max_stacks)

\* C30: once an enemy has died and every spawned enemy is dead with none
\* left to spawn within the duration, the loop has stopped and clear_time is
\* the simulation time of that moment.
C30_StopsWhenWaveCleared ==
    (/\ engine.op = "timeline"
     /\ engine.simulating
     /\ \E i \in 1..Len(engine.sim.enemies) : ~engine.sim.enemies[i].alive
     /\ WaveCleared(engine.sim)) =>
        /\ ~engine.sim.running
        /\ engine.sim.clear_time = engine.sim.now



(* -------------------------------- C31 --------------------------------- *)

\* The running simulation is about to serve a tower_attack of its k-th
\* tower, which has focus_until_death.
FocusAttackDue(k) ==
    /\ SimulationRuns
    /\ engine.sim.events # {}
    /\ k \in 1..Len(engine.sim.towers)
    /\ engine.sim.towers[k].focus_until_death
    /\ LET e == HeapTop(engine.sim.events)
       IN /\ e.at_s <= engine.sim.duration_s
          /\ e.type = "tower_attack"
          /\ e.tower_uid = engine.sim.towers[k].uid

\* The attack changed no enemy other than the one with the uid.
OnlyAttacked(before, after, uid) ==
    \A i \in 1..Len(before) : after[i] # before[i] => before[i].uid = uid

\* C31: in a combat-mode wave every attack of a tower with
\* focus_until_death goes to the enemy of its previous attack as long as
\* that enemy is alive; only without a previous target, or with a previous
\* target that is dead, the tower takes the enemy its focus priorities
\* select, and with nobody to attack it keeps what it had.
C31_FocusKeepsTargetUntilDeath ==
    [][\A k \in 1..2 :
          FocusAttackDue(k) =>
              LET sim == engine.sim
                  now == HeapTop(sim.events).at_s
                  enemies == _apply_regen(sim.enemies, now - sim.now)
                  tower == sim.towers[k]
                  previous == tower.sticky_target_uid
                  previous_alive ==
                      \E i \in 1..Len(enemies) :
                          enemies[i].uid = previous /\ enemies[i].alive
                  selected == PickByPriorities(now, tower, enemies)
                  attacked == engine'.sim.towers[k].sticky_target_uid
              IN  /\ previous_alive =>
                        /\ attacked = previous
                        /\ OnlyAttacked(enemies, engine'.sim.enemies, previous)
                  /\ ~previous_alive /\ selected # 0 =>
                        /\ attacked = enemies[selected].uid
                        /\ OnlyAttacked(enemies, engine'.sim.enemies, attacked)
                  /\ ~previous_alive /\ selected = 0 =>
                        /\ attacked = previous
                        /\ engine'.sim.enemies = enemies]_vars

\* A tower with focus_until_death has just attacked, after its first
\* attack, an enemy that is still alive while another alive and spawned
\* enemy has more hit points, which its priority highest_hp would select.
C31_Witness ==
    /\ SimulationRuns
    /\ engine.sim.now > 0
    /\ \E k \in 1..Len(engine.sim.towers) :
          LET sim == engine.sim
              tower == sim.towers[k]
          IN  /\ tower.focus_until_death
              /\ tower.focus_priorities = <<"highest_hp">>
              /\ \E e \in sim.events :
                    /\ e.type = "tower_attack"
                    /\ e.tower_uid = tower.uid
                    /\ e.at_s = sim.now + Div(Scale, Max2(EPS, tower.stats.fire_rate))
              /\ \E i, j \in 1..Len(sim.enemies) :
                    /\ sim.enemies[i].uid = tower.sticky_target_uid
                    /\ sim.enemies[i].alive
                    /\ sim.enemies[i].hp < sim.enemies[i].definition.hp
                    /\ sim.enemies[j].alive
                    /\ sim.now >= sim.enemies[j].spawn_time
                    /\ sim.enemies[j].hp + sim.enemies[j].barrier
                           > sim.enemies[i].hp + sim.enemies[i].barrier + 2 * Scale


(* -------------------------------- C32 --------------------------------- *)

\* The enemies of the simulation in progress, none when there is none.
SimEnemies(e) ==
    IF e.op = "timeline" /\ e.simulating THEN e.sim.enemies ELSE <<>>

\* C32: at every event of a combat-mode or sampled wave whose scenario has
\* non-negative hit points, barrier, damage and regeneration, the hp of
\* every enemy lies in [0, definition hp] and its barrier in [0, definition
\* barrier]; an event lowers the hp or the barrier only of an enemy that is
\* alive and has spawned; and an enemy marked dead stays dead with its hp
\* and its barrier as they are.
C32_EnemiesWithinBoundsAndDeadStayDead ==
    [][/\ \A i \in 1..Len(SimEnemies(engine')) :
             LET after == SimEnemies(engine')[i]
             IN  /\ 0 <= after.hp /\ after.hp <= after.definition.hp
                 /\ 0 <= after.barrier /\ after.barrier <= after.definition.barrier
       /\ SimulationRuns /\ engine'.simulating /\ engine'.samples = engine.samples =>
             \A i \in 1..Len(engine.sim.enemies) :
                 LET before == engine.sim.enemies[i]
                     after == engine'.sim.enemies[i]
                 IN  /\ after.hp < before.hp \/ after.barrier < before.barrier =>
                           before.alive /\ engine'.sim.now >= before.spawn_time
                     /\ ~before.alive =>
                           /\ ~after.alive
                           /\ after.hp = before.hp
                           /\ after.barrier = before.barrier]_vars

\* A simulation with regenerating enemies is past an event that came after
\* the death of one enemy, while another enemy is alive and has won back
\* hit points: those missing are fewer than the damage dealt.
C32_Witness ==
    /\ SimulationRuns
    /\ \E i, j \in 1..Len(engine.sim.enemies) :
          LET sim == engine.sim
              missing(k) == (sim.enemies[k].definition.hp - sim.enemies[k].hp)
                            + (sim.enemies[k].definition.barrier - sim.enemies[k].barrier)
          IN  /\ sim.enemies[i].definition.regen_per_s > EPS
              /\ ~sim.enemies[i].alive
              /\ sim.enemies[i].hp <= EPS
              /\ sim.enemies[j].alive
              /\ sim.enemies[j].hp > 0
              /\ Len(sim.enemies) = 2
              /\ i # j
              /\ missing(i) + missing(j) < sim.total_damage


(* ------------------- engine: the loop over the actions ---------------- *)

\* Sampled plans for the walk through _runtime_for_wave: one or two towers
\* of one id, and up to MaxPlanActions actions on wave 1 that build, sell,
\* upgrade or retarget it, or retarget a tower id the plan does not hold.
LoopActionPool ==
    {BuildAction(1, 0, "build", "arrow_tower", 0, EmptyPayload),
     BuildAction(1, 0, "sell", "arrow_tower", 0, EmptyPayload),
     BuildAction(1, 0, "upgrade", "arrow_tower", 0, EmptyPayload),
     BuildAction(1, 0, "targeting", "arrow_tower", 0,
                 DictOf2("focus_priorities", <<"highest_hp">>,
                         "focus_until_death", TRUE)),
     BuildAction(1, 0, "targeting", "frost_tower", 0,
                 DictOf2("focus_priorities", <<"highest_hp">>,
                         "focus_until_death", TRUE)),
     BuildAction(2, 0, "targeting", "arrow_tower", 0, EmptyPayload)}

LoopBuilds ==
    {BuildPlan_from_dict(
         [scenario_id |-> "s1", towers |-> <<TowerPlan("arrow_tower", count, 0)>>,
          active_global_modifiers |-> <<>>, actions |-> actions]) :
        count \in 1..2, actions \in SeqsUpTo(LoopActionPool, MaxPlanActions)}

\* _runtime_for_wave(build, 1) before its loop: the initial state and the
\* position of the next action.
RuntimeLoopInit ==
    /\ bridge = NewBridge
    /\ threads = NoThreads
    /\ scanner = NoScanner
    /\ replay_store = [id \in {} |-> <<>>]
    /\ last_call = Call("init", "", NoSnapshot, "", "")
    /\ candidate_payload = NoCalibration
    /\ \E build \in LoopBuilds :
          engine = [op |-> "runtime_loop", build |-> build, wave_index |-> 1,
                    state |-> _initial_runtime_state(build), next |-> 1,
                    returned |-> FALSE]

\* One pass of the loop: the next action is applied to the state.
ApplyNextAction ==
    /\ engine.op = "runtime_loop"
    /\ ~engine.returned
    /\ engine.next <= Len(engine.build.actions)
    /\ engine.build.actions[engine.next].wave <= engine.wave_index
    /\ engine' = [engine EXCEPT
                     !.state = _apply_action_to_state(
                                   @, engine.build.actions[engine.next]),
                     !.next = @ + 1]
    /\ UNCHANGED <<bridge, replay_store, last_call, candidate_payload, scanner, threads>>

\* The loop ends: no action is left, or the next one is of a later wave.
RuntimeLoopReturns ==
    /\ engine.op = "runtime_loop"
    /\ ~engine.returned
    /\ \/ engine.next > Len(engine.build.actions)
       \/ /\ engine.next <= Len(engine.build.actions)
          /\ engine.build.actions[engine.next].wave > engine.wave_index
    /\ engine' = [engine EXCEPT !.returned = TRUE]
    /\ UNCHANGED <<bridge, replay_store, last_call, candidate_payload, scanner, threads>>

RuntimeLoopNext == ApplyNextAction \/ RuntimeLoopReturns

SpecRuntimeLoop == RuntimeLoopInit /\ [][RuntimeLoopNext]_vars

(* -------------------------------- C33 --------------------------------- *)

\* The action the loop applies next is a targeting action.
TargetingDue ==
    /\ engine.op = "runtime_loop"
    /\ ~engine.returned
    /\ engine.next <= Len(engine.build.actions)
    /\ engine.build.actions[engine.next].wave <= engine.wave_index
    /\ LowerStrip(engine.build.actions[engine.next].type) = "targeting"

\* The towers with the focus settings of the action on the tower at the
\* index, everything else as it was.
Retargeted(towers, index, action) ==
    [i \in 1..Len(towers) |->
        IF i = index
        THEN [towers[i] EXCEPT
                 !.focus_priorities =
                     PayloadGet(action.payload, "focus_priorities",
                                Some(DefaultFocus))[1],
                 !.focus_until_death =
                     PayloadGet(action.payload, "focus_until_death", Some(FALSE))[1]]
        ELSE towers[i]]

\* C33: a targeting action replaces focus_priorities and focus_until_death
\* on the first runtime tower whose tower_id equals target_id and leaves
\* every other tower, later towers of the same tower_id included, as it
\* was; it changes nothing when no tower matches.
C33_TargetingChangesFirstMatchOnly ==
    [][TargetingDue =>
          LET action == engine.build.actions[engine.next]
              towers == engine.state.towers
          IN  /\ engine'.state.active_modifier_ids = engine.state.active_modifier_ids
              /\ engine'.state.towers =
                     Retargeted(towers, FirstTower(towers, action.target_id), action)]_vars

\* What the loop does on a targeting action: every tower whose tower_id
\* equals target_id gets the focus settings of the action, no tower is
\* added or removed, and nothing changes when no tower matches.
TargetingChangesEveryMatch ==
    [][TargetingDue =>
          LET action == engine.build.actions[engine.next]
              towers == engine.state.towers
          IN  /\ engine'.state.active_modifier_ids = engine.state.active_modifier_ids
              /\ Len(engine'.state.towers) = Len(towers)
              /\ \A i \in 1..Len(towers) :
                    engine'.state.towers[i] =
                        IF towers[i].tower_id = action.target_id
                        THEN Retargeted(towers, i, action)[i]
                        ELSE towers[i]]_vars

\* A targeting action has been applied to a state with two towers of its
\* target_id, and the second of them has the focus settings of the action.
TargetingReachedSecondTower ==
    /\ engine.op = "runtime_loop"
    /\ engine.next > 1
    /\ engine.build.actions[engine.next - 1].type = "targeting"
    /\ engine.build.actions[engine.next - 1].target_id = "arrow_tower"
    /\ Len(engine.state.towers) = 2
    /\ \A i \in 1..2 :
          /\ engine.state.towers[i].tower_id = "arrow_tower"
          /\ engine.state.towers[i].focus_until_death
          /\ engine.state.towers[i].focus_priorities = <<"highest_hp">>


(* --------------------- memory reader: pointer chains ------------------ *)

\* The number of bytes of the process memory the reader is explored on; a
\* read that leaves it raises MemoryReadError.
ChainMemSize == 16

\* An address at or above 2^32, which no sampled memory holds.
BeyondMemory == 1000 * ChainMemSize

\* The memories: little-endian 32-bit words, each 0, 2, 4 or 8.
ChainMemories ==
    {[a \in 0..(ChainMemSize - 1) |-> IF a % 4 = 0 THEN words[a \div 4] ELSE 0] :
        words \in [0..((ChainMemSize - 1) \div 4) -> {0, 2, 4, 8}]}

\* The field specs: both sources, with no, one and two offsets.
ChainSpecs ==
    {MemoryFieldSpec(source, "int32", address, offsets, relative_to_module) :
        source \in {"address", "pointer_chain"}, address \in {0, 4},
        offsets \in {<<>>, <<0>>, <<4>>, <<4, 0>>, <<2, 4>>},
        relative_to_module \in BOOLEAN}

\* backend.read_memory raises: the bytes asked for are not all in the memory.
ChainReadRaises(address, size) ==
    address < 0 \/ address + size > ChainMemSize

\* struct.unpack("<I", raw) and struct.unpack("<Q", raw) of _read_pointer on
\* the sampled bytes: a 64-bit pointer with a high half other than 0 lies
\* beyond the memory.
UnpackPointer(raw, pointer_size) ==
    IF pointer_size = 8
    THEN IF DecodeInt32(SubSeq(raw, 5, 8)) = 0
         THEN DecodeInt32(SubSeq(raw, 1, 4)) ELSE BeyondMemory
    ELSE DecodeInt32(raw)

\* A MemoryReader that is open on a process, before read_fields resolves the
\* field: reads is the list of backend.read_memory calls (address, size).
ChainStart(memory, module_base, pointer_size, spec) ==
    [op |-> "read_fields", memory |-> memory, module_base |-> module_base,
     pointer_size |-> pointer_size, spec |-> spec, reads |-> <<>>,
     current |-> 0, next_offset |-> 1, value |-> 0, raised |-> ""]

\* The head of _resolve_address: the base address, plus the module base
\* when the field is relative to the module; an address field is resolved
\* by that, another source than address and pointer_chain is refused.
_resolve_address(r) ==
    LET address == r.spec.address
                   + (IF r.spec.relative_to_module THEN r.module_base ELSE 0)
    IN  CASE r.spec.source = "address" ->
                [r EXCEPT !.op = "resolved", !.current = address]
          [] r.spec.source = "pointer_chain" ->
                [r EXCEPT !.op = "chain", !.current = address]
          [] OTHER -> [r EXCEPT !.op = "raised", !.raised = "MemoryProfileError"]

\* _read_pointer at the current address, for the pass of the loop over the
\* offsets or for the chain without offsets, whose result is the pointer
\* itself.
_read_pointer(r) ==
    LET reads == Append(r.reads, <<r.current, r.pointer_size>>)
        ptr == UnpackPointer(read_memory(r.memory, r.current, r.pointer_size),
                             r.pointer_size)
    IN  IF ChainReadRaises(r.current, r.pointer_size)
        THEN [r EXCEPT !.op = "raised", !.raised = "MemoryReadError",
                       !.reads = reads]
        ELSE IF r.spec.offsets = <<>>
        THEN [r EXCEPT !.op = "resolved", !.reads = reads, !.current = ptr]
        ELSE [r EXCEPT
                 !.reads = reads,
                 !.current = ptr + r.spec.offsets[r.next_offset],
                 !.next_offset = @ + 1,
                 !.op = IF r.next_offset = Len(r.spec.offsets)
                        THEN "resolved" ELSE "chain"]

\* The read of read_fields at the resolved address and its decoding.
ReadValueAt(r) ==
    LET size == 4
        reads == Append(r.reads, <<r.current, size>>)
    IN  IF ChainReadRaises(r.current, size)
        THEN [r EXCEPT !.op = "raised", !.raised = "MemoryReadError",
                       !.reads = reads]
        ELSE [r EXCEPT !.op = "returned", !.reads = reads,
                       !.value = DecodeInt32(read_memory(r.memory, r.current, size))]

ChainInit ==
    /\ bridge = NewBridge
    /\ threads = NoThreads
    /\ replay_store = [id \in {} |-> <<>>]
    /\ last_call = Call("init", "", NoSnapshot, "", "")
    /\ engine = NoEngine
    /\ candidate_payload = NoCalibration
    /\ \E memory \in ChainMemories, pointer_size \in {4, 8}, spec \in ChainSpecs :
          scanner = ChainStart(memory, 4, pointer_size, spec)

\* read_fields enters _resolve_address for the field.
ResolveBegins ==
    /\ scanner.op = "read_fields"
    /\ scanner' = _resolve_address(scanner)
    /\ UNCHANGED <<bridge, replay_store, last_call, engine, candidate_payload, threads>>

\* _resolve_address reads a pointer.
ResolveReadsPointer ==
    /\ scanner.op = "chain"
    /\ scanner' = _read_pointer(scanner)
    /\ UNCHANGED <<bridge, replay_store, last_call, engine, candidate_payload, threads>>

\* read_fields reads and decodes the value at the resolved address.
ReadsValue ==
    /\ scanner.op = "resolved"
    /\ scanner' = ReadValueAt(scanner)
    /\ UNCHANGED <<bridge, replay_store, last_call, engine, candidate_payload, threads>>

ChainNext == ResolveBegins \/ ResolveReadsPointer \/ ReadsValue

SpecChain == ChainInit /\ [][ChainNext]_vars

(* -------------------------------- C34 --------------------------------- *)

\* The pointer stored at an address of the memory of r.
PointerAt(r, address) ==
    UnpackPointer(read_memory(r.memory, address, r.pointer_size), r.pointer_size)

\* The address after following the first n offsets of the chain: the base
\* for n = 0, else the pointer at the address before plus the n-th offset.
RECURSIVE ChainAddress(_, _)
ChainAddress(r, n) ==
    IF n = 0
    THEN r.spec.address + (IF r.spec.relative_to_module THEN r.module_base ELSE 0)
    ELSE PointerAt(r, ChainAddress(r, n - 1)) + r.spec.offsets[n]

\* The reads of a chain of k offsets: k pointer reads along the chain, then
\* the read of the value.
ChainReads(r) ==
    LET k == Len(r.spec.offsets)
    IN  [n \in 1..(k + 1) |->
            IF n <= k THEN <<ChainAddress(r, n - 1), r.pointer_size>>
            ELSE <<ChainAddress(r, k), 4>>]

\* C34: a read of a pointer-chain field that returns has made exactly k
\* pointer reads, one per offset and in their order, each at the address
\* the pointer before and its offset give, and then one read of the value at
\* the last address, which it decodes; with no offsets it reads the value at
\* the base.
C34_ChainReadsOnePointerPerOffset ==
    scanner.op = "returned" /\ scanner.spec.source = "pointer_chain" =>
        /\ scanner.reads = ChainReads(scanner)
        /\ scanner.value =
               DecodeInt32(read_memory(scanner.memory,
                                       ChainAddress(scanner, Len(scanner.spec.offsets)),
                                       4))

\* The same for the chains that have an offset.
ChainWithOffsetsReadsOnePointerPerOffset ==
    /\ scanner.op = "returned"
    /\ scanner.spec.source = "pointer_chain"
    /\ scanner.spec.offsets # <<>>
    => /\ scanner.reads = ChainReads(scanner)
       /\ scanner.value =
              DecodeInt32(read_memory(scanner.memory,
                                      ChainAddress(scanner, Len(scanner.spec.offsets)),
                                      4))

\* What a chain without offsets does: one pointer read at the base, and
\* the value is read at the address that pointer holds.
ChainWithoutOffsetsReadsThroughBase ==
    /\ scanner.op = "returned"
    /\ scanner.spec.source = "pointer_chain"
    /\ scanner.spec.offsets = <<>>
    => /\ scanner.reads = << <<ChainAddress(scanner, 0), scanner.pointer_size>>,
                             <<PointerAt(scanner, ChainAddress(scanner, 0)), 4>> >>
       /\ scanner.value =
              DecodeInt32(read_memory(scanner.memory,
                                      PointerAt(scanner, ChainAddress(scanner, 0)), 4))

\* A chain of two offsets has returned a value other than the one at its
\* base.
ChainOfTwoOffsetsReturned ==
    /\ scanner.op = "returned"
    /\ scanner.spec.source = "pointer_chain"
    /\ Len(scanner.spec.offsets) = 2
    /\ Len(scanner.reads) = 3
    /\ scanner.reads[3][1] # scanner.reads[1][1]
    /\ scanner.value # 0


(* ----------------- building candidates from snapshots ----------------- *)

\* f"{candidate_prefix}_{index}" for the default prefix.
ComboCandidateId(index) ==
    CASE index = 1 -> "artifact_combo_1"
      [] index = 2 -> "artifact_combo_2"
      [] index = 3 -> "artifact_combo_3"
      [] index = 4 -> "artifact_combo_4"
      [] index = 5 -> "artifact_combo_5"
      [] index = 6 -> "artifact_combo_6"
      [] index = 7 -> "artifact_combo_7"
      [] index = 8 -> "artifact_combo_8"
      [] OTHER -> "artifact_combo_n"

\* The address loop of _read_snapshot_addresses over the record lines from
\* line i on: an address seen before is skipped, and the loop stops when
\* max_records_per_field addresses are collected.
RECURSIVE SnapshotAddresses(_, _, _, _)
SnapshotAddresses(lines, i, addresses, max_records_per_field) ==
    IF i > Len(lines) THEN addresses
    ELSE IF lines[i] \in SeqRange(addresses)
    THEN SnapshotAddresses(lines, i + 1, addresses, max_records_per_field)
    ELSE IF Len(addresses) + 1 >= max_records_per_field
    THEN Append(addresses, lines[i])
    ELSE SnapshotAddresses(lines, i + 1, Append(addresses, lines[i]),
                           max_records_per_field)

\* math.prod of the address counts of the fields from position i on.
RECURSIVE ProductOfCounts(_, _, _)
ProductOfCounts(addresses_by_field, selected_fields, i) ==
    IF i > Len(selected_fields) THEN 1
    ELSE Len(addresses_by_field[selected_fields[i]])
         * ProductOfCounts(addresses_by_field, selected_fields, i + 1)

\* A product whose leftmost position advances first.
RECURSIVE NextComboFirstFastest(_, _, _)
NextComboFirstFastest(combo, counts, i) ==
    LET j == Len(counts) - i + 1
    IN  IF i = 0 THEN <<>>
        ELSE IF combo[j] < counts[j] THEN [combo EXCEPT ![j] = @ + 1]
        ELSE NextComboFirstFastest([combo EXCEPT ![j] = 1], counts, i - 1)

\* itertools.product: the positions of the combination after the given one,
\* the rightmost position advancing first; <<>> when it was the last.
RECURSIVE NextCombo(_, _, _)
NextCombo(combo, counts, i) ==
    IF i = 0 THEN <<>>
    ELSE IF combo[i] < counts[i] THEN [combo EXCEPT ![i] = @ + 1]
    ELSE NextCombo([combo EXCEPT ![i] = 1], counts, i - 1)

\* build_calibration_candidates_from_snapshots before its first statement:
\* the record lines behind each field's snapshot meta path and the
\* arguments.
BuildStart(required_fields, optional_meta_fields, lines_by_field,
           max_records_per_field, max_candidates, active_candidate_id) ==
    [op |-> "build", required_fields |-> required_fields,
     optional_meta_fields |-> optional_meta_fields,
     lines_by_field |-> lines_by_field,
     max_records_per_field |-> max_records_per_field,
     max_candidates |-> max_candidates,
     active_candidate_id |-> active_candidate_id,
     selected_fields |-> <<>>, addresses_by_field |-> <<>>,
     combination_space |-> 0, combo |-> <<>>, index |-> 0,
     candidates |-> <<>>, combination_truncated |-> FALSE,
     payload |-> <<>>, raised |-> ""]

\* The function up to the loop over the product: the arguments are checked
\* and the addresses of every selected field are read, the required fields
\* first, then the optional fields that have a snapshot meta path.
ReadSnapshotsOf(b) ==
    LET selected_fields == b.required_fields \o b.optional_meta_fields
        addresses_by_field ==
            [name \in SeqRange(selected_fields) |->
                SnapshotAddresses(b.lines_by_field[name], 1, <<>>,
                                  b.max_records_per_field)]
        raises ==
            \/ b.max_records_per_field <= 0
            \/ b.max_candidates <= 0
            \/ b.required_fields = <<>>
            \/ \E name \in SeqRange(b.optional_meta_fields) :
                  name \in SeqRange(b.required_fields)
            \/ \E name \in SeqRange(selected_fields) : addresses_by_field[name] = <<>>
    IN  IF raises
        THEN [b EXCEPT !.op = "raised", !.raised = "MemoryProfileError"]
        ELSE [b EXCEPT
                 !.op = "product",
                 !.selected_fields = selected_fields,
                 !.addresses_by_field = addresses_by_field,
                 !.combination_space =
                     ProductOfCounts(addresses_by_field, selected_fields, 1),
                 !.combo = [i \in 1..Len(selected_fields) |-> 1],
                 !.index = 1]

\* One pass of the loop over the product: the break on max_candidates, or
\* the candidate of the combination is appended.
EmitCandidateOf(b) ==
    IF Len(b.candidates) >= b.max_candidates
    THEN [b EXCEPT !.combination_truncated = TRUE, !.op = "emitted"]
    ELSE LET fields_payload ==
                 [name \in SeqRange(b.selected_fields) |->
                     LET i == CHOOSE k \in 1..Len(b.selected_fields) :
                                  b.selected_fields[k] = name
                     IN  [source |-> "address", type |-> "int32",
                          address |-> b.addresses_by_field[name][b.combo[i]],
                          relative_to_module |-> FALSE]]
             counts == [i \in 1..Len(b.selected_fields) |->
                           Len(b.addresses_by_field[b.selected_fields[i]])]
             next_combo == NextCombo(b.combo, counts, Len(counts))
         IN  [b EXCEPT
                 !.candidates = Append(@, [id |-> ComboCandidateId(b.index),
                                          required_admin |-> FALSE,
                                          fields |-> fields_payload]),
                 !.index = @ + 1,
                 !.combo = next_combo,
                 !.op = IF next_combo = <<>> THEN "emitted" ELSE "product"]

\* The payload the function assembles after the loop.
BuiltPayloadOf(b) ==
    [b EXCEPT
        !.op = "returned",
        !.payload =
            [required_fields |-> b.required_fields,
             selected_addresses_per_field |->
                 [name \in SeqRange(b.selected_fields) |->
                     Len(b.addresses_by_field[name])],
             combination_space |-> b.combination_space,
             combination_truncated |-> b.combination_truncated,
             active_candidate_id |->
                 IF Strip(b.active_candidate_id) # ""
                 THEN Strip(b.active_candidate_id) ELSE b.candidates[1].id,
             candidates |-> b.candidates]]

\* The record lines of a snapshot: one address, two, one given twice before
\* another, three.
SnapshotLines == {<<16>>, <<16, 32>>, <<16, 16, 32>>, <<16, 32, 48>>}

BuildInputs ==
    {BuildStart(required_fields, optional_meta_fields, lines_by_field,
                max_records_per_field, max_candidates, active_candidate_id) :
        required_fields \in {<<"current_wave">>, <<"current_wave", "gold">>},
        optional_meta_fields \in {<<>>, <<"lives">>},
        lines_by_field \in [{"current_wave", "gold", "lives"} -> SnapshotLines],
        max_records_per_field \in {2, 3},
        max_candidates \in {1, MaxCandidates, MaxCandidates + 2},
        active_candidate_id \in {"", " cand_b "}}

BuildInit ==
    /\ bridge = NewBridge
    /\ threads = NoThreads
    /\ scanner = NoScanner
    /\ replay_store = [id \in {} |-> <<>>]
    /\ last_call = Call("init", "", NoSnapshot, "", "")
    /\ engine = NoEngine
    /\ candidate_payload \in BuildInputs

\* The snapshots are read.
BuildReadsSnapshots ==
    /\ candidate_payload.op = "build"
    /\ candidate_payload' = ReadSnapshotsOf(candidate_payload)
    /\ UNCHANGED <<bridge, replay_store, last_call, engine, scanner, threads>>

\* The loop over the product makes a pass.
EmitCandidate ==
    /\ candidate_payload.op = "product"
    /\ candidate_payload' = EmitCandidateOf(candidate_payload)
    /\ UNCHANGED <<bridge, replay_store, last_call, engine, scanner, threads>>

\* The loop is left and the payload is returned.
BuildReturns ==
    /\ candidate_payload.op = "emitted"
    /\ candidate_payload' = BuiltPayloadOf(candidate_payload)
    /\ UNCHANGED <<bridge, replay_store, last_call, engine, scanner, threads>>

BuildNext == BuildReadsSnapshots \/ EmitCandidate \/ BuildReturns

SpecBuild == BuildInit /\ [][BuildNext]_vars

(* -------------------------------- C35 --------------------------------- *)

\* The number of distinct addresses among the record lines of a field, at
\* most max_records_per_field.
AddressCount(b, name) ==
    Min2(Cardinality(SeqRange(b.lines_by_field[name])), b.max_records_per_field)

\* The product of the address counts of the fields from position i on.
RECURSIVE SpaceFrom(_, _, _)
SpaceFrom(b, fields, i) ==
    IF i > Len(fields) THEN 1
    ELSE AddressCount(b, fields[i]) * SpaceFrom(b, fields, i + 1)

\* The position, in the addresses of field i, of the n-th combination of
\* the Cartesian product with the last field varying fastest.
ProductPosition(b, fields, n, i) ==
    (((n - 1) \div SpaceFrom(b, fields, i + 1)) % AddressCount(b, fields[i])) + 1

\* The k-th distinct address among the record lines of a field.
RECURSIVE DistinctAddress(_, _, _)
DistinctAddress(lines, i, k) ==
    IF lines[i] \in {lines[j] : j \in 1..(i - 1)}
    THEN DistinctAddress(lines, i + 1, k)
    ELSE IF k = 1 THEN lines[i]
    ELSE DistinctAddress(lines, i + 1, k - 1)

\* C35: build_calibration_candidates_from_snapshots returns min(
\* max_candidates, P) candidates, P being the product of the address counts
\* of the fields; the n-th has the id '<prefix>_n' and the addresses of the
\* n-th combination of the Cartesian product over the required fields
\* followed by the optional ones, the last field varying fastest;
\* combination_space is P, combination_truncated tells whether P exceeds
\* max_candidates, and active_candidate_id is the first candidate's id
\* unless one was given.
C35_CandidatesAreProductPrefix ==
    candidate_payload.op = "returned" =>
        LET b == candidate_payload
            fields == b.required_fields \o b.optional_meta_fields
            P == SpaceFrom(b, fields, 1)
            payload == b.payload
        IN  /\ Len(payload.candidates) = Min2(b.max_candidates, P)
            /\ payload.combination_space = P
            /\ payload.combination_truncated = (P > b.max_candidates)
            /\ payload.active_candidate_id =
                   IF Strip(b.active_candidate_id) = ""
                   THEN ComboCandidateId(1) ELSE Strip(b.active_candidate_id)
            /\ \A n \in 1..Len(payload.candidates) :
                  /\ payload.candidates[n].id = ComboCandidateId(n)
                  /\ DOMAIN payload.candidates[n].fields = SeqRange(fields)
                  /\ \A i \in 1..Len(fields) :
                        payload.candidates[n].fields[fields[i]].address =
                            DistinctAddress(b.lines_by_field[fields[i]], 1,
                                            ProductPosition(b, fields, n, i))

\* A payload was returned for two required fields and one optional field
\* with more combinations than max_candidates allows, three candidates in
\* it, the second differing from the first in the optional field only.
C35_Witness ==
    /\ candidate_payload.op = "returned"
    /\ Len(candidate_payload.required_fields) = 2
    /\ Len(candidate_payload.optional_meta_fields) = 1
    /\ candidate_payload.payload.combination_truncated
    /\ candidate_payload.payload.combination_space > 4
    /\ Len(candidate_payload.payload.candidates) = 3
    /\ LET first == candidate_payload.payload.candidates[1].fields
           second == candidate_payload.payload.candidates[2].fields
       IN  /\ first["lives"].address # second["lives"].address
           /\ first["gold"].address = second["gold"].address
           /\ first["current_wave"].address = second["current_wave"].address


(* ---------------- choosing the candidate of a calibration payload ---------- *)

\* The candidate bodies the choice is sampled on: the three degrees of
\* resolved required fields, each without stability data, with a stable
\* probe or with too few probe cycles, and a fully resolved candidate with an
\* excessive share of transient 299 errors.
ChooseBodies ==
    {[fields |-> CandidateFieldsFull],
     [fields |-> CandidateFieldsPartial],
     [fields |-> CandidateFieldsSparse, stability |-> [x \in {} |-> 0]],
     [fields |-> CandidateFieldsSparse,
      stability |-> [snapshot_probe_count |-> 4, snapshot_ok_count |-> 4,
                     snapshot_total_count |-> 4]],
     [fields |-> CandidateFieldsPartial,
      stability |-> [snapshot_probe_count |-> 4, snapshot_ok_count |-> 4,
                     snapshot_total_count |-> 4]],
     [fields |-> CandidateFieldsPartial,
      stability |-> [snapshot_probe_count |-> 2, snapshot_ok_count |-> 1,
                     snapshot_total_count |-> 4]],
     [fields |-> CandidateFieldsFull,
      stability |-> [snapshot_probe_count |-> 2, snapshot_ok_count |-> 1,
                     snapshot_total_count |-> 4]],
     [fields |-> CandidateFieldsFull,
      stability |-> [probe_windows |-> 4, ok_count |-> 4, sample_count |-> 4,
                     winerr299_count |-> 2]]}

ChoosePayloads ==
    {[candidates |-> [index \in 1..n |-> WithId(bodies[index], RawCandidateId(index))],
      active_candidate_id |-> active] :
        n \in {MaxCandidates - 1},
        bodies \in [1..(MaxCandidates - 1) -> ChooseBodies],
        active \in {"", " cand_b "}}
    \cup {[candidates |-> <<WithId(b1, "cand_a"), WithId(b2, " cand_a ")>>] :
             b1 \in {[fields |-> CandidateFieldsFull]}, b2 \in ChooseBodies}
    \cup {[candidates |-> <<>>]}

ChooseInit ==
    /\ bridge = NewBridge
    /\ threads = NoThreads
    /\ scanner = NoScanner
    /\ replay_store = [id \in {} |-> <<>>]
    /\ last_call = Call("init", "", NoSnapshot, "", "")
    /\ engine = NoEngine
    /\ candidate_payload \in
          {[op |-> "choose", calibration_payload |-> payload,
            preferred_candidate_id |-> preferred, selected_id |-> ""] :
              payload \in ChoosePayloads,
              preferred \in {"", " cand_a ", "cand_b", "cand_x"}}

\* One call of choose_calibration_candidate_id that returns an id.
ChooseReturns ==
    /\ candidate_payload.op = "choose"
    /\ ~IterCandidateEntriesRaises(candidate_payload.calibration_payload)
    /\ candidate_payload' =
          [candidate_payload EXCEPT
              !.op = "chosen",
              !.selected_id = choose_calibration_candidate_id(
                                  candidate_payload.calibration_payload,
                                  candidate_payload.preferred_candidate_id)]
    /\ UNCHANGED <<bridge, replay_store, last_call, engine, scanner, threads>>

\* One call of choose_calibration_candidate_id that raises MemoryProfileError.
ChooseRaises ==
    /\ candidate_payload.op = "choose"
    /\ IterCandidateEntriesRaises(candidate_payload.calibration_payload)
    /\ candidate_payload' = [candidate_payload EXCEPT !.op = "choose_raised"]
    /\ UNCHANGED <<bridge, replay_store, last_call, engine, scanner, threads>>

ChooseNext == ChooseReturns \/ ChooseRaises

SpecChoose == ChooseInit /\ [][ChooseNext]_vars

\* The score entries of the payload the choice was made on.
ChosenFromScores ==
    {CandidateScore(candidate_payload.calibration_payload, index) :
        index \in 1..Len(candidate_payload.calibration_payload.candidates)}

ChosenIsPresent ==
    \E item \in ChosenFromScores : item.id = candidate_payload.selected_id

ChosenHasMaxResolved ==
    \E item \in ChosenFromScores :
        /\ item.id = candidate_payload.selected_id
        /\ \A other \in ChosenFromScores :
              other.resolved_required_fields <= item.resolved_required_fields

\* C36: choose_calibration_candidate_id returns the id of a candidate of the
\* payload, never the empty string, and the candidate it returns has the
\* largest number of resolved required fields among all candidates, also
\* when the recommendation is empty and the choice falls to the ordering of
\* all score entries.
C36_ChosenIsPresentWithMaxResolved ==
    candidate_payload.op = "chosen" =>
        /\ candidate_payload.selected_id # ""
        /\ ChosenIsPresent
        /\ ChosenHasMaxResolved

\* What holds of every choice: the id is non-empty and names a candidate of
\* the payload; it has the largest number of resolved required fields
\* whenever the recommendation names a candidate or some candidate is valid.
ChosenIsPresentAndMaxResolvedUnlessFallbackWithoutValid ==
    candidate_payload.op = "chosen" =>
        /\ candidate_payload.selected_id # ""
        /\ ChosenIsPresent
        /\ (\/ calibration_candidate_recommendation(
                   candidate_payload.calibration_payload,
                   candidate_payload.preferred_candidate_id).recommended_candidate_id # ""
            \/ \E item \in ChosenFromScores : item.valid)
           => ChosenHasMaxResolved

\* A choice on the ordering of all score entries that returned a candidate
\* with fewer resolved required fields than another.
ChosenByFallbackWithFewerResolved ==
    /\ candidate_payload.op = "chosen"
    /\ calibration_candidate_recommendation(
           candidate_payload.calibration_payload,
           candidate_payload.preferred_candidate_id).recommended_candidate_id = ""
    /\ ChosenIsPresent
    /\ ~ChosenHasMaxResolved


(* -------------- engine: towers built and towers paid for ----------------- *)

\* The towers of the sampled scenario with their upgrade levels, already in
\* the order of sorted(tower.upgrade_levels, key=level); frost_tower is not
\* a tower of the scenario.
AccountingScenarioTowers ==
    [tower_id \in {"arrow_tower"} |->
        <<[level |-> 1, cost |-> 50], [level |-> 2, cost |-> 30]>>]

\* _approx_build_cost(scenario, tower_id, level), in gold.
_approx_build_cost(towers, tower_id, level) ==
    IF tower_id \notin DOMAIN towers \/ Len(towers[tower_id]) = 0
    THEN 75 + 25 * Max2(0, level)
    ELSE LET upgrades == towers[tower_id]
             base == Max2(1, upgrades[1].cost)
             extra == SumSeq([k \in 1..Len(upgrades) |->
                                 IF 1 < upgrades[k].level /\ upgrades[k].level <= level
                                 THEN Max2(0, upgrades[k].cost) ELSE 0],
                             Len(upgrades))
         IN IF level <= 1 THEN base ELSE Max2(1, base + extra)

\* The build branch of the loop body of _evaluate_economy_totals: the cost
\* of one build action, in 1/Scale gold, at the build_count it sees.  The
\* sampled policies keep build_cost_multiplier at its default 1.0, so
\* max(0.1, build_cost_multiplier) is 1.0.
BuildActionTotalCost(towers, economy, build_count, action) ==
    LET count == _build_action_count(action)
        tower_id == PayloadGet(action.payload, "tower_id", Some(action.target_id))[1]
        level == Max2(0, PayloadGet(action.payload, "level", Some(0))[1])
        base_cost == _approx_build_cost(towers, tower_id, level) * count * Scale
        policy_multiplier == Scale
    IN Mul(Mul(base_cost, InflationMultiplier(economy, build_count)),
           policy_multiplier)

\* One pass of the loop body on the action at a position of build.actions:
\* the economy state and build_actions_total as EconomyLoopBody leaves them,
\* and build_spend_gold_total with the entry of the ledger when the action
\* was costed.
AccountAction(acc, position) ==
    LET action == acc.build.actions[position]
        ev == EconomyLoopBody(acc.ev, action)
        total_cost == BuildActionTotalCost(acc.towers, acc.ev.economy,
                                           acc.ev.state.build_count, action)
    IN IF ev.last_action = "build"
       THEN [acc EXCEPT !.ev = ev,
                        !.build_spend_gold_total = @ + total_cost,
                        !.costed = Append(@, [position |-> position,
                                              count |-> ev.last_build.count,
                                              total_cost |-> total_cost])]
       ELSE [acc EXCEPT !.ev = ev]

\* for action in actions_by_wave.get(wave.index, []): the actions of that
\* wave in the order of build.actions, from a position on.
RECURSIVE AccountWave(_, _, _)
AccountWave(acc, wave_index, position) ==
    IF position > Len(acc.build.actions) THEN acc
    ELSE AccountWave(IF acc.build.actions[position].wave = wave_index
                     THEN AccountAction(acc, position) ELSE acc,
                     wave_index, position + 1)

\* Sampled build actions on every wave from 0 to MaxWave + 1: one arrow
\* tower, or two frost towers named in the payload; on wave 1 a build with
\* no tower id, a build of no tower and a change of policy.
AccountingActionPool ==
    {BuildAction(wave, 0, "build", "arrow_tower", 0, EmptyPayload) :
        wave \in 0..(MaxWave + 1)}
    \cup {BuildAction(wave, 0, " Build", "", 0,
                      DictOf2("tower_id", "frost_tower", "count", 2)) :
             wave \in 0..(MaxWave + 1)}
    \cup {BuildAction(1, 0, "build", "", 0, EmptyPayload),
          BuildAction(1, 0, "build", "arrow_tower", 0, DictOf1("count", 0)),
          BuildAction(1, 0, "economy_policy", "greedy", 0, EmptyPayload)}

\* The wave indices of the sampled scenarios: contiguous from 1, starting
\* later than 1, and with a gap.
AccountingWaves ==
    {<<1>>, <<MaxWave>>, <<1, MaxWave>>, <<1, MaxWave + 1>>}

\* evaluate_timeline before its loop over the waves: no wave simulated, the
\* economy evaluation not begun.
AccountingInit ==
    /\ bridge = NewBridge
    /\ threads = NoThreads
    /\ scanner = NoScanner
    /\ replay_store = [id \in {} |-> <<>>]
    /\ last_call = Call("init", "", NoSnapshot, "", "")
    /\ candidate_payload = NoCalibration
    /\ \E actions \in SeqsUpTo(AccountingActionPool, MaxPlanActions - 1),
          waves \in AccountingWaves, rate \in {0, 1} :
          engine = [op |-> "accounting",
                    build |-> BuildPlan_from_dict(
                                  [scenario_id |-> "s1",
                                   towers |-> <<TowerPlan("arrow_tower", 1, 0)>>,
                                   active_global_modifiers |-> <<>>,
                                   actions |-> actions]),
                    waves |-> waves,
                    towers |-> AccountingScenarioTowers,
                    runtimes |-> <<>>,
                    accounted |-> 0,
                    ev |-> EconomyEvaluation(
                               EconomyDefinition(MaxWorkers, 1, 1, rate, 2 * Scale)),
                    build_spend_gold_total |-> 0,
                    costed |-> <<>>]

\* One pass of evaluate_timeline's loop: the runtime state of the next wave.
SimulateNextWave ==
    /\ engine.op = "accounting"
    /\ Len(engine.runtimes) < Len(engine.waves)
    /\ engine' = [engine EXCEPT
                     !.runtimes =
                         Append(@, _runtime_for_wave(
                                       engine.build,
                                       engine.waves[Len(engine.runtimes) + 1]))]
    /\ UNCHANGED <<bridge, replay_store, last_call, candidate_payload, scanner, threads>>

\* One pass of the loop over the waves in _evaluate_economy_totals, run
\* after the last wave was simulated.
AccountNextWave ==
    /\ engine.op = "accounting"
    /\ Len(engine.runtimes) = Len(engine.waves)
    /\ engine.accounted < Len(engine.waves)
    /\ ~engine.ev.totals.reported
    /\ engine' = [AccountWave(engine, engine.waves[engine.accounted + 1], 1)
                     EXCEPT !.accounted = @ + 1]
    /\ UNCHANGED <<bridge, replay_store, last_call, candidate_payload, scanner, threads>>

\* The return of _evaluate_economy_totals.
AccountingReturns ==
    /\ engine.op = "accounting"
    /\ Len(engine.runtimes) = Len(engine.waves)
    /\ engine.accounted = Len(engine.waves)
    /\ ~engine.ev.totals.reported
    /\ engine' = [engine EXCEPT !.ev.totals = EconomyTotals(engine.ev),
                                !.ev.last_action = "report"]
    /\ UNCHANGED <<bridge, replay_store, last_call, candidate_payload, scanner, threads>>

AccountingNext == SimulateNextWave \/ AccountNextWave \/ AccountingReturns

SpecAccounting == AccountingInit /\ [][AccountingNext]_vars

\* The build action at a position added towers to the runtime state of a
\* simulated wave: the loop of _runtime_for_wave reached it and the tower
\* list grew in its pass.
AddsTowers(position) ==
    \E k \in 1..Len(engine.runtimes) :
        LET actions == engine.build.actions
            initial == _initial_runtime_state(engine.build)
        IN /\ \A j \in 1..position : actions[j].wave <= engine.waves[k]
           /\ Len(RuntimeLoop(initial, SubSeq(actions, 1, position), 1,
                              engine.waves[k]).towers)
                > Len(RuntimeLoop(initial, SubSeq(actions, 1, position - 1), 1,
                                  engine.waves[k]).towers)
           /\ engine.runtimes[k] = RuntimeLoop(initial, actions, 1, engine.waves[k])

\* The build action at a position had its cost added to build_spend_gold
\* and its count to build_actions.
Costed(position) ==
    \E k \in 1..Len(engine.costed) :
        /\ engine.costed[k].position = position
        /\ engine.costed[k].count > 0
        /\ engine.costed[k].total_cost > 0

AccountingReported ==
    engine.op = "accounting" /\ engine.ev.totals.reported

BuildPositions ==
    {i \in 1..Len(engine.build.actions) :
        LowerStrip(engine.build.actions[i].type) = "build"}

\* C37: once every wave is simulated and the economy totals are returned, a
\* build action added towers to the runtime state of some simulated wave if
\* and only if its cost was added to build_spend_gold and its count to
\* build_actions, whatever the wave index of the action.
C37_TowersBuiltIffPaidFor ==
    AccountingReported =>
        \A i \in BuildPositions : AddsTowers(i) <=> Costed(i)

\* What holds: the two agree on the build actions that name a tower and
\* whose wave is the index of a scenario wave; the totals are the sums of
\* the actions costed; an action is costed only on a scenario wave.
TowersBuiltIffPaidForOnScenarioWaves ==
    AccountingReported =>
        /\ \A i \in BuildPositions :
              LET action == engine.build.actions[i]
              IN /\ Costed(i) =>
                       \E k \in 1..Len(engine.waves) : engine.waves[k] = action.wave
                 /\ (/\ \E k \in 1..Len(engine.waves) : engine.waves[k] = action.wave
                     /\ PayloadGet(action.payload, "tower_id",
                                   Some(action.target_id))[1] # "")
                    => (AddsTowers(i) <=> Costed(i))
        /\ engine.ev.totals.build_actions
              = SumSeq([k \in 1..Len(engine.costed) |-> engine.costed[k].count],
                       Len(engine.costed))
        /\ engine.build_spend_gold_total
              = SumSeq([k \in 1..Len(engine.costed) |-> engine.costed[k].total_cost],
                       Len(engine.costed))

\* A build action of a wave that no scenario wave has, whose towers stand in
\* the runtime state of a later wave and were never paid for.
TowersBuiltOffScenarioWaveUnpaid ==
    /\ AccountingReported
    /\ \E i \in BuildPositions :
          /\ AddsTowers(i)
          /\ ~Costed(i)
          /\ \A k \in 1..Len(engine.waves) :
                engine.waves[k] # engine.build.actions[i].wave


(* -------------------------------- C38 --------------------------------- *)

\* The counters of the bridge as status() reports them, in a consistent
\* state.
CountersConsistent ==
    /\ bridge.snapshot_failure_streak \in {0, 1}
    /\ (last_call.op = "snapshot" /\ bridge.mode = "memory")
          => bridge.snapshot_failure_streak = 0
    /\ bridge.snapshot_transient_failure_count <= bridge.snapshot_failures_total
    /\ bridge.connect_retry_success_total <= bridge.connect_transient_failure_count
    /\ bridge.connect_transient_failure_count <= 1
    /\ bridge.connect_failures_total <= 2

\* A snapshot() call whose reread failed raised snapshot_failures_total by
\* one, for the first read alone.
FailedRereadCountedOnce ==
    (last_call'.op = "snapshot" /\ last_call'.path = "reread_failed")
        => /\ bridge'.snapshot_failures_total = bridge.snapshot_failures_total + 1
           /\ bridge'.snapshot_transient_failure_count
                 = bridge.snapshot_transient_failure_count + 1

\* C38: in every reachable state of the bridge snapshot_failure_streak is 0
\* or 1, and 0 after a snapshot() that left the mode at memory;
\* snapshot_transient_failure_count <= snapshot_failures_total;
\* connect_retry_success_total <= connect_transient_failure_count <= 1;
\* connect_failures_total <= 2; and a snapshot() whose reread fails too
\* raises snapshot_failures_total by one only.
C38_FailureCountersConsistent ==
    []CountersConsistent /\ [][FailedRereadCountedOnce]_vars

\* A connect() that succeeded on its retry, then a snapshot() that recovered
\* from a transient error, then a snapshot() whose reread failed as well.
C38_Witness ==
    /\ last_call.op = "snapshot"
    /\ last_call.path = "reread_failed"
    /\ bridge.snapshot_failures_total = 2
    /\ bridge.snapshot_transient_failure_count = 2
    /\ bridge.snapshot_failure_streak = 1
    /\ bridge.connect_retry_success_total = 1
    /\ bridge.connect_failures_total = 1


(* -------------------------------- C39 --------------------------------- *)

\* The call that just returned is a snapshot() with that source_mode.
ReturnedSnapshotOf(call, source_mode) ==
    /\ call.op = "snapshot"
    /\ call.raised = ""
    /\ call.snapshot.source_mode = source_mode

\* One call on the bridge, seen from the wave the bridge holds: a memory
\* snapshot sets it to its own wave, which is at least 1; a synthetic
\* snapshot is at the wave held before the call, with no gold, no essence
\* and a build of the (empty) towers key alone; every other call, connect()
\* and autoconnect() with their validation read included, leaves it alone.
SyntheticWaveStep ==
    /\ ReturnedSnapshotOf(last_call', "memory")
          => /\ bridge'.synthetic_wave = last_call'.snapshot.wave
             /\ last_call'.snapshot.wave
                   = Max2(1, PyInt(bridge'.last_memory_values["current_wave"].n))
    /\ ~ReturnedSnapshotOf(last_call', "memory")
          => bridge'.synthetic_wave = bridge.synthetic_wave
    /\ ReturnedSnapshotOf(last_call', "synthetic")
          => /\ last_call'.snapshot.wave = bridge.synthetic_wave
             /\ last_call'.snapshot.gold = 0
             /\ last_call'.snapshot.essence = 0
             /\ "towers" \in last_call'.snapshot.build.keys
             /\ "combat" \notin last_call'.snapshot.build.keys

\* C39: a synthetic snapshot has the wave of the most recent snapshot() that
\* succeeded in memory mode on this bridge, at least 1 and 1 when there was
\* none, zero gold and essence and an empty tower list; connect(), with its
\* validation read, does not change that wave.
C39_SyntheticSnapshotAtLastMemoryWave ==
    bridge.synthetic_wave = 1 /\ [][SyntheticWaveStep]_vars

\* A synthetic snapshot at wave 2 on a bridge whose last memory values hold
\* another wave: they are the validation read of a connect() that came
\* after the memory snapshot of wave 2, and the snapshot() after it failed.
C39_Witness ==
    /\ ReturnedSnapshotOf(last_call, "synthetic")
    /\ last_call.snapshot.wave = 2
    /\ bridge.mode = "degraded"
    /\ bridge.snapshot_failures_total = 1
    /\ bridge.last_memory_values # EmptyDict
    /\ Max2(1, PyInt(bridge.last_memory_values["current_wave"].n)) # 2


(* --------------- connect(): what it clears and what it keeps -------------- *)

\* The bridge with the attributes of LiveBridge that the calls above do not
\* read: the calibration path, the candidate ids of the loaded payload and
\* the two settings, as __init__ leaves them.
WithSettings(b) ==
    [key \in DOMAIN b \cup {"calibration_candidates_path",
                            "available_calibration_candidate_ids",
                            "autoconnect_enabled", "dataset_autorefresh"} |->
        CASE key = "calibration_candidates_path" -> ""
          [] key = "available_calibration_candidate_ids" -> <<>>
          [] key = "autoconnect_enabled" -> FALSE
          [] key = "dataset_autorefresh" -> TRUE
          [] OTHER -> b[key]]

\* A prologue that leaves the candidate ids of the earlier payload in place.
ConnectPrologueKeepingCandidateIds(b, autoconnect_enabled, dataset_autorefresh) ==
    [b EXCEPT !.calibration_candidates_path = "",
              !.autoconnect_enabled =
                  IF autoconnect_enabled # None THEN autoconnect_enabled[1] ELSE @,
              !.dataset_autorefresh =
                  IF dataset_autorefresh # None THEN dataset_autorefresh[1] ELSE @]

\* The first statements of connect() on those attributes: the candidate ids
\* and the calibration path are cleared, a setting is assigned when it is
\* not None.
ConnectPrologue(b, autoconnect_enabled, dataset_autorefresh) ==
    [b EXCEPT !.available_calibration_candidate_ids = <<>>,
              !.calibration_candidates_path = "",
              !.autoconnect_enabled =
                  IF autoconnect_enabled # None THEN autoconnect_enabled[1] ELSE @,
              !.dataset_autorefresh =
                  IF dataset_autorefresh # None THEN dataset_autorefresh[1] ELSE @]

\* connect() with those attributes: the prologue, the call as connect
\* models it, and the calibration block, which records the candidate ids
\* once the payload is loaded (payload_loaded: the payload loaded although
\* no candidate could be applied) and the path once a candidate is applied.
ConnectWithSettings(b0, store, c, autoconnect_enabled, dataset_autorefresh, payload_loaded) ==
    LET required_fields ==
            IF Len(c.profile.required_combat_fields) > 0
            THEN c.profile.required_combat_fields ELSE REQUIRED_MEMORY_FIELDS
        looks_for_calibration ==
            /\ c.catalog_ok
            /\ c.profile # NoProfile
            /\ \/ c.explicit_calibration
               \/ _profile_has_unresolved_required_fields(c.profile, required_fields)
        applied == looks_for_calibration /\ c.calibration # NoCandidate
    IN CHOOSE out \in
          {[status EXCEPT
               !.bridge.available_calibration_candidate_ids =
                   IF looks_for_calibration /\ (applied \/ payload_loaded)
                   THEN CandidateAttemptOrder ELSE @,
               !.bridge.calibration_candidates_path =
                   IF applied THEN "calibration_candidates.json" ELSE @] :
             status \in {connect(b1, store, c) :
                            b1 \in {ConnectPrologue(b0, autoconnect_enabled,
                                                    dataset_autorefresh)}}} : TRUE

\* autoconnect() with those attributes: every attempt passes
\* autoconnect_enabled=True and the bridge's own dataset_autorefresh.
RECURSIVE AutoconnectWithSettingsFrom(_, _, _, _)
AutoconnectWithSettingsFrom(b, store, attempts, index) ==
    CHOOSE out \in
        {IF status.bridge.mode = "memory" \/ status.call.raised # ""
            \/ index = Len(attempts)
         THEN [status EXCEPT !.call.op = "autoconnect",
                             !.call.source = DictOf1("attempt", index)]
         ELSE AutoconnectWithSettingsFrom(status.bridge, store, attempts, index + 1) :
            status \in {ConnectWithSettings(b, store, attempts[index], Some(TRUE),
                                            Some(b.dataset_autorefresh), FALSE)}} : TRUE

\* The connect() inputs of this part: a catalog or profile that does not
\* load, one succeeding and every failing open/read script of the plain
\* profile, the calibration cases of the profile with an unresolved field,
\* the process cases with a replay session, and a calibrated connect that
\* succeeds on its retry.
ReconnectInputs ==
    {ConnectInput(ok, NoProfile, FALSE, NoCandidate, Proceeds, "",
                  OneScript(PlainProfile)) : ok \in BOOLEAN}
    \cup {ConnectInput(TRUE, PlainProfile, FALSE, NoCandidate, Proceeds, "", sc) :
              sc \in {x \in ConnectScripts(PlainProfile) :
                         x.read1.ok => x = OneScript(PlainProfile)}}
    \cup UNION {
           {ConnectInput(TRUE, p, cc[1], cc[2], Proceeds, "", OneScript(p)) :
                cc \in CalibrationCases(p)} :
           p \in {BaseProfile(0, FALSE)}}
    \cup {ConnectInput(TRUE, PlainProfile, FALSE, NoCandidate, pc, "r1",
                       OneScript(PlainProfile)) :
              pc \in ProcessCases}
    \cup {ConnectInput(TRUE, BaseProfile(0, FALSE), TRUE, cal, Proceeds, "", sc) :
              cal \in {x \in CalibrationCandidates : x.id = "candidate_full"},
              sc \in {x \in ConnectScripts(BaseProfile(0, FALSE)) :
                         /\ x.open1.ok /\ ~x.read1.ok
                         /\ x.open2.ok /\ x.read2.ok}}

\* <<autoconnect_enabled, dataset_autorefresh>> as a caller passes them.
SettingArguments ==
    {<<None, None>>, <<Some(TRUE), None>>, <<Some(FALSE), Some(FALSE)>>,
     <<None, Some(TRUE)>>}

\* The autoconnect() calls explored: two candidates to attempt, the first
\* attempt on a running process.
ReconnectAutoconnectInputs ==
    {a \in AutoconnectInputs :
        /\ a.replay_session_id = ""
        /\ Len(a.attempts) = 2
        /\ a.attempts[1].has_process}

ReconnectInit ==
    /\ bridge = WithSettings(NewBridge)
    /\ threads = NoThreads
    /\ scanner = NoScanner
    /\ replay_store =
          [id \in StoredSessionIds |->
             <<ReplaySnapshot(1, 0, 0, Build({}, FALSE, EmptyDict, EmptyDict)),
               LastSnapshot(id)>>]
    /\ last_call = Call("init", "", NoSnapshot, "", "")
    /\ engine = NoEngine
    /\ candidate_payload = NoCalibration

\* <<c, settings, payload_loaded>> of the connect() calls explored: every
\* input without settings, the payload loaded or not where no candidate is
\* applied, and every choice of settings on a plain successful connect.
PlainConnectInput ==
    ConnectInput(TRUE, PlainProfile, FALSE, NoCandidate, Proceeds, "",
                 OneScript(PlainProfile))

ReconnectCalls ==
    {<<c, <<None, None>>, FALSE>> : c \in ReconnectInputs}
    \cup {<<c, <<None, None>>, TRUE>> :
             c \in {x \in ReconnectInputs :
                       x.calibration = NoCandidate /\ x.profile = BaseProfile(0, FALSE)}}
    \cup {<<PlainConnectInput, settings, FALSE>> : settings \in SettingArguments}

ReconnectConnect ==
    \E call \in ReconnectCalls :
      \E r \in {ConnectWithSettings(bridge, replay_store, call[1], call[2][1],
                                    call[2][2], call[3])} :
        /\ bridge' = r.bridge
        /\ last_call' = r.call
        /\ UNCHANGED <<replay_store, engine, candidate_payload, scanner, threads>>

ReconnectAutoconnect ==
    \E a \in ReconnectAutoconnectInputs :
      \E r \in {AutoconnectWithSettingsFrom(bridge, replay_store, a.attempts, 1)} :
        /\ bridge' = r.bridge
        /\ last_call' = r.call
        /\ UNCHANGED <<replay_store, engine, candidate_payload, scanner, threads>>

ReconnectSnapshot ==
    \E script \in IF SnapshotReadsMemory(bridge)
                  THEN SnapshotScripts(bridge.memory_profile)
                  ELSE {CHOOSE x \in SnapshotScripts(NoProfile) : TRUE} :
      \E r \in {snapshot(bridge, replay_store, script)} :
        /\ SnapshotRecordsFailure(bridge, script) =>
               bridge.snapshot_failures_total < MaxSnapshotFailures
        /\ bridge' = r.bridge
        /\ last_call' = r.call
        /\ UNCHANGED <<replay_store, engine, candidate_payload, scanner, threads>>

ReconnectNext == ReconnectConnect \/ ReconnectAutoconnect \/ ReconnectSnapshot

SpecReconnect == ReconnectInit /\ [][ReconnectNext]_vars

\* The per-connection state of a bridge as status() reports it.
PerConnectionState(b) ==
    [snapshot_failure_streak |-> b.snapshot_failure_streak,
     snapshot_failures_total |-> b.snapshot_failures_total,
     snapshot_transient_failure_count |-> b.snapshot_transient_failure_count,
     connect_failures_total |-> b.connect_failures_total,
     connect_transient_failure_count |-> b.connect_transient_failure_count,
     connect_retry_success_total |-> b.connect_retry_success_total,
     last_error |-> b.last_error,
     last_memory_values |-> b.last_memory_values,
     calibration_candidates_path |-> b.calibration_candidates_path,
     calibration_candidate |-> b.calibration_candidate,
     calibration_candidate_ids |-> b.available_calibration_candidate_ids]

\* The bridge with that state as a bridge that never connected has it.
PerConnectionStateCleared(b) ==
    [b EXCEPT !.snapshot_failure_streak = 0,
              !.snapshot_failures_total = 0,
              !.snapshot_transient_failure_count = 0,
              !.connect_failures_total = 0,
              !.connect_transient_failure_count = 0,
              !.connect_retry_success_total = 0,
              !.last_error = "",
              !.last_memory_values = EmptyDict,
              !.calibration_candidates_path = "",
              !.calibration_candidate = "",
              !.available_calibration_candidate_ids = <<>>]

\* A bridge that carries per-connection state of every kind from its
\* earlier calls.
CarriesPerConnectionState(b) ==
    /\ b.snapshot_failures_total > 0
    /\ b.connect_failures_total > 0
    /\ b.last_error # ""
    /\ b.last_memory_values # EmptyDict
    /\ b.calibration_candidate # ""
    /\ b.available_calibration_candidate_ids # <<>>

\* One connect() on the bridge: the reader is closed first, the
\* per-connection state afterwards is the one the call leaves on a bridge
\* without any, and a setting keeps its value unless the call passes it.
ConnectReflectsOnlyThisAttempt(b, c, settings, payload_loaded) ==
    \A after \in {ConnectWithSettings(b, replay_store, c, settings[1], settings[2],
                                      payload_loaded).bridge},
       alone \in {ConnectWithSettings(PerConnectionStateCleared(b), replay_store, c,
                                      settings[1], settings[2], payload_loaded).bridge} :
       /\ after.memory_reader.calls[1].m = "close"
       /\ PerConnectionState(after) = PerConnectionState(alone)
       /\ after.autoconnect_enabled =
             IF settings[1] = None THEN b.autoconnect_enabled ELSE settings[1][1]
       /\ after.dataset_autorefresh =
             IF settings[2] = None THEN b.dataset_autorefresh ELSE settings[2][1]

\* One autoconnect() on the bridge: the per-connection state afterwards is
\* the one its last connect() leaves on a bridge without any, and
\* dataset_autorefresh keeps its value.
AutoconnectReflectsOnlyFinalAttempt(b, a) ==
    \A status \in {AutoconnectWithSettingsFrom(b, replay_store, a.attempts, 1)} :
       \A alone \in {ConnectWithSettings(
                         PerConnectionStateCleared(b), replay_store,
                         a.attempts[status.call.source["attempt"]],
                         Some(TRUE), Some(b.dataset_autorefresh), FALSE).bridge} :
          /\ PerConnectionState(status.bridge) = PerConnectionState(alone)
          /\ status.bridge.dataset_autorefresh = b.dataset_autorefresh
          /\ status.bridge.autoconnect_enabled

DirtyBridgeReached == CarriesPerConnectionState(bridge)

====
